---- MODULE Spec2Model ----
(***************************************************************************)
(* Study-group chat application: the client wrapper around the hosted      *)
(* backend (retryOperation, checkRealtimeHealth), the database schema with *)
(* its triggers and row-level-security policies, and the component         *)
(* handlers that issue requests against it.                                *)
(***************************************************************************)
EXTENDS Integers, Sequences, FiniteSets, TLC

\* ---------------------------------------------------------------- bounds
MaxRetriesBound == 4
MaxTimerChecks == 1
MaxGroups == 2
MaxMessages == 1
MaxMeetings == 1

\* ------------------------------------------------------ program constants
DefaultMaxRetries == 3
DefaultDelay == 1000
DefaultMaxMembers == 100

Delays == {0, 1, DefaultDelay}
RetryCounts == (-1 .. MaxRetriesBound) \cup {DefaultMaxRetries}
Values == {"v1", "v2"}
Errors == {"e1", "e2"}
Statuses == {"SUBSCRIBED", "CHANNEL_ERROR", "TIMED_OUT", "CLOSED"}

\* auth.users ids, generated codes (view codes, invite codes), message senders
Users == {"u1", "u2"}
Codes == {"c1", "c2"}
SystemSender == "system"
Senders == Users \cup {SystemSender, "nobody"}
GroupIds == 1 .. MaxGroups
\* what the client receives for a request: a result, or an error raised
\* before the request takes effect (network failure, expired session)
Responses == {"ok", "error"}
Null == "null"

\* supabase.auth.storageKey as createClient configures it, the token keys
\* signOut removes after the backend call, the page the dashboard is shown on
StorageKey == "supabase.auth.token"
TokenKeys == {"supabase.auth.token", "supabase.auth.refreshToken"}
DashboardPath == "/dashboard"

VARIABLES
  \* retryOperation: position, loop counter, arguments, settled result
  rPc, rI, rMax, rDelay, rResult,
  \* history of the operation's invocations and of retryOperation's steps
  opLog, trace,
  \* module-scoped connection state of the client wrapper
  isConnected, channels, nextChannel, timerChecks,
  \* the status most recently delivered to a subscribe callback of a health
  \* check (Null before the first delivery)
  lastStatus,
  \* database tables
  authUsers, user_profiles, groups, group_members, messages, meetings,
  \* generated primary keys (gen_random_uuid); the groups deleted so far,
  \* each with whether it had messages and meetings when it was deleted
  nextGroupId, nextMessageId, nextMeetingId, deletedGroups,
  \* the error of the last request the database answered ("ok" if none)
  lastErr,
  \* Dashboard.handleCreateGroup: position, its user and group, and the
  \* groups that finished calls have created and that were not deleted since
  cgPc, cgUser, cgGroup, cgCreated,
  \* FindPersonModal: position of handleSearch, the view code searched for,
  \* the group ids of the membership query, the component state, and which
  \* query of the running search was answered with an error ("none" if none)
  fpPc, fpViewCode, fpGroupIds, fpProfile, fpGroups, fpLoading, fpError,
  fpFailed,
  \* Dashboard.fetchProfile: position, the userId prop, retryCount and what
  \* the last select returned ("row", "none", "error"); the component
  \* state profile (a set: empty for null) and error
  pfPc, pfUser, pfRetry, pfSelect, dashProfile, dashError,
  \* fetchProfile's requests and waits since it started, and the profile
  \* state it started with
  pfLog, pfStart,
  \* the invite codes handed over outside the backend: pairs <<user, group id>>
  codeGiven,
  \* Profile editor: the text of the last alert() (Null if none) and the
  \* avatar URL in its state (Null for the default); storage.objects
  alertText, edAvatar, objects,
  \* what the last call of generate_unique_view_code returned: a code,
  \* "raised" for its exception, Null before any call
  gvResult,
  \* lib/supabase.ts: the interval timer; signOut's position, steps, result
  realtimeHealthCheck, soPc, soLog, soResult, localStorage, location,
  \* Dashboard.fetchGroups: position, userId, the group ids it split, and
  \* the component state loading, createdGroups, joinedGroups
  fgPc, fgUser, fgCreatedIds, fgJoinedIds, loading, createdGroups, joinedGroups

retryVars == <<rPc, rI, rMax, rDelay, rResult, opLog, trace>>
healthVars == <<isConnected, channels, nextChannel, timerChecks, lastStatus>>
tableVars == <<authUsers, user_profiles, groups, group_members, messages,
               meetings, nextGroupId, nextMessageId, nextMeetingId,
               deletedGroups>>
createGroupVars == <<cgPc, cgUser, cgGroup, cgCreated>>
searchVars == <<fpPc, fpViewCode, fpGroupIds, fpProfile, fpGroups, fpLoading,
                fpError, fpFailed>>
dashVars == <<pfPc, pfUser, pfRetry, pfSelect, dashProfile, dashError,
              pfLog, pfStart>>
inviteVars == <<codeGiven>>
editorVars == <<alertText, edAvatar, objects>>
viewCodeVars == <<gvResult>>
signOutVars ==
  <<realtimeHealthCheck, soPc, soLog, soResult, localStorage, location>>
fetchGroupsVars == <<fgPc, fgUser, fgCreatedIds, fgJoinedIds, loading,
                     createdGroups, joinedGroups>>
clientVars == <<dashVars, inviteVars, editorVars, viewCodeVars, signOutVars,
                fetchGroupsVars>>
dbVars == <<tableVars, lastErr, createGroupVars, searchVars, clientVars>>

RECURSIVE Pow2(_)
Pow2(n) == IF n <= 0 THEN 1 ELSE 2 * Pow2(n - 1)

BackoffDelay_linear(delay, i) == delay * (i + 1)

\* the timeout retryOperation requests after the failed invocation i
BackoffDelay(delay, i) == delay * Pow2(i)

NoResult == [kind |-> "pending", val |-> "-"]

\* ------------------------------------------------- checkRealtimeHealth
\* supabase.channel('system') followed by channel.subscribe(callback): the
\* call creates a channel; statuses reach the callback later.
checkRealtimeHealth ==
  /\ channels' = channels \cup {nextChannel}
  /\ nextChannel' = nextChannel + 1
  /\ UNCHANGED <<isConnected, lastStatus>>

SubscribeCallback_staysConnected(c, s) ==
  /\ c \in channels
  /\ isConnected' = (isConnected \/ s = "SUBSCRIBED")
  /\ channels' = IF s = "SUBSCRIBED" THEN channels ELSE channels \ {c}
  /\ lastStatus' = s
  /\ UNCHANGED <<nextChannel, timerChecks>>
  /\ UNCHANGED retryVars
  /\ UNCHANGED dbVars

\* the subscribe callback of channel c receives status s
SubscribeCallback(c, s) ==
  /\ c \in channels
  /\ isConnected' = (s = "SUBSCRIBED")
  /\ channels' = IF s = "SUBSCRIBED" THEN channels ELSE channels \ {c}
  /\ lastStatus' = s
  /\ UNCHANGED <<nextChannel, timerChecks>>
  /\ UNCHANGED retryVars
  /\ UNCHANGED dbVars

\* setInterval(checkRealtimeHealth, ...) fires
TimerHealthCheck ==
  /\ realtimeHealthCheck = "running"
  /\ timerChecks < MaxTimerChecks
  /\ timerChecks' = timerChecks + 1
  /\ checkRealtimeHealth
  /\ UNCHANGED retryVars
  /\ UNCHANGED dbVars

\* ------------------------------------------------------ retryOperation
\* the loop test fails before any invocation: the function falls off its end
RetryLoopExit ==
  /\ rPc = "loop"
  /\ ~(rI < rMax)
  /\ rPc' = "resolved"
  /\ rResult' = [kind |-> "undefined", val |-> "-"]
  /\ UNCHANGED <<rI, rMax, rDelay, opLog, trace>>
  /\ UNCHANGED healthVars
  /\ UNCHANGED dbVars

OperationResolves_noReturn(v) ==
  /\ rPc = "loop"
  /\ rI < rMax
  /\ opLog' = Append(opLog, [kind |-> "resolve", val |-> v])
  /\ trace' = Append(trace, [ev |-> "call", arg |-> rI])
  /\ rI' = rI + 1
  /\ UNCHANGED <<rPc, rResult, rMax, rDelay>>
  /\ UNCHANGED healthVars
  /\ UNCHANGED dbVars

\* operation() is invoked and resolves with v: return await operation()
OperationResolves(v) ==
  /\ rPc = "loop"
  /\ rI < rMax
  /\ opLog' = Append(opLog, [kind |-> "resolve", val |-> v])
  /\ trace' = Append(trace, [ev |-> "call", arg |-> rI])
  /\ rPc' = "resolved"
  /\ rResult' = [kind |-> "value", val |-> v]
  /\ UNCHANGED <<rI, rMax, rDelay>>
  /\ UNCHANGED healthVars
  /\ UNCHANGED dbVars

OperationRejects_firstError(e) ==
  /\ rPc = "loop"
  /\ rI < rMax
  /\ opLog' = Append(opLog, [kind |-> "reject", val |-> e])
  /\ trace' = Append(trace, [ev |-> "call", arg |-> rI])
  /\ IF rI = rMax - 1
       THEN /\ rPc' = "rejected"
            /\ rResult' = [kind |-> "error", val |-> opLog'[1].val]
       ELSE /\ rPc' = "wait"
            /\ UNCHANGED rResult
  /\ UNCHANGED <<rI, rMax, rDelay>>
  /\ UNCHANGED healthVars
  /\ UNCHANGED dbVars

\* operation() is invoked and rejects with e: the catch block
OperationRejects(e) ==
  /\ rPc = "loop"
  /\ rI < rMax
  /\ opLog' = Append(opLog, [kind |-> "reject", val |-> e])
  /\ trace' = Append(trace, [ev |-> "call", arg |-> rI])
  /\ IF rI = rMax - 1
       THEN /\ rPc' = "rejected"
            /\ rResult' = [kind |-> "error", val |-> e]
       ELSE /\ rPc' = "wait"
            /\ UNCHANGED rResult
  /\ UNCHANGED <<rI, rMax, rDelay>>
  /\ UNCHANGED healthVars
  /\ UNCHANGED dbVars

\* await new Promise(resolve => setTimeout(resolve, delay * 2^i))
RetryWait ==
  /\ rPc = "wait"
  /\ trace' = Append(trace, [ev |-> "wait", arg |-> BackoffDelay(rDelay, rI)])
  /\ rPc' = "health"
  /\ UNCHANGED <<rI, rMax, rDelay, rResult, opLog>>
  /\ UNCHANGED healthVars
  /\ UNCHANGED dbVars

\* await checkRealtimeHealth(); then i++
RetryHealthCheck ==
  /\ rPc = "health"
  /\ trace' = Append(trace, [ev |-> "health", arg |-> rI])
  /\ checkRealtimeHealth
  /\ rI' = rI + 1
  /\ rPc' = "loop"
  /\ UNCHANGED <<rMax, rDelay, rResult, opLog, timerChecks>>
  /\ UNCHANGED dbVars

RetryInit ==
  /\ rPc = "loop"
  /\ rI = 0
  /\ rMax \in RetryCounts
  /\ rDelay \in Delays
  /\ rResult = NoResult
  /\ opLog = <<>>
  /\ trace = <<>>

HealthInit ==
  /\ isConnected = FALSE
  /\ channels = {0}
  /\ nextChannel = 1
  /\ timerChecks = 0
  /\ lastStatus = Null

DbInit ==
  /\ authUsers = {}
  /\ user_profiles = {}
  /\ groups = {}
  /\ group_members = {}
  /\ messages = {}
  /\ meetings = {}
  /\ nextGroupId = 1
  /\ nextMessageId = 1
  /\ nextMeetingId = 1
  /\ deletedGroups = {}
  /\ lastErr = "ok"
  /\ cgPc = "idle"
  /\ cgUser = Null
  /\ cgGroup = 0
  /\ cgCreated = {}

\* FindPersonModal's useState initial values
SearchInit ==
  /\ fpPc = "idle"
  /\ fpViewCode = ""
  /\ fpGroupIds = {}
  /\ fpProfile = {}
  /\ fpGroups = {}
  /\ fpLoading = FALSE
  /\ fpError = Null
  /\ fpFailed = "none"

\* Dashboard's useState initial values; no fetch has started
DashInit ==
  /\ pfPc = "idle"
  /\ pfUser = Null
  /\ pfRetry = 0
  /\ pfSelect = Null
  /\ dashProfile = {}
  /\ dashError = Null
  /\ pfLog = <<>>
  /\ pfStart = {}

InviteInit ==
  /\ codeGiven = {}

EditorInit ==
  /\ alertText = Null
  /\ edAvatar = Null
  /\ objects = {}

ViewCodeInit ==
  /\ gvResult = Null

SignOutInit ==
  /\ realtimeHealthCheck = "running"
  /\ soPc = "idle"
  /\ soLog = <<>>
  /\ soResult = Null
  /\ localStorage = {StorageKey} \cup TokenKeys
  /\ location = DashboardPath

FetchGroupsInit ==
  /\ fgPc = "idle"
  /\ fgUser = Null
  /\ fgCreatedIds = {}
  /\ fgJoinedIds = {}
  /\ loading = TRUE
  /\ createdGroups = {}
  /\ joinedGroups = {}

ClientInit == DashInit /\ InviteInit /\ EditorInit /\ ViewCodeInit
                /\ SignOutInit /\ FetchGroupsInit

vars == <<rPc, rI, rMax, rDelay, rResult, opLog, trace,
          isConnected, channels, nextChannel, timerChecks, lastStatus,
          authUsers, user_profiles, groups, group_members, messages, meetings,
          nextGroupId, nextMessageId, nextMeetingId, deletedGroups,
          lastErr, cgPc, cgUser, cgGroup, cgCreated,
          fpPc, fpViewCode, fpGroupIds, fpProfile, fpGroups, fpLoading,
          fpError, fpFailed,
          pfPc, pfUser, pfRetry, pfSelect, dashProfile, dashError,
          codeGiven,
          alertText, edAvatar, objects,
          gvResult,
          pfLog, pfStart,
          realtimeHealthCheck, soPc, soLog, soResult, localStorage, location,
          fgPc, fgUser, fgCreatedIds, fgJoinedIds, loading, createdGroups,
          joinedGroups>>

InitRetry == RetryInit /\ HealthInit /\ DbInit /\ SearchInit /\ ClientInit

NextRetry ==
  \/ RetryLoopExit
  \/ \E v \in Values : OperationResolves(v)
  \/ \E e \in Errors : OperationRejects(e)
  \/ RetryWait
  \/ RetryHealthCheck
  \/ TimerHealthCheck
  \/ \E c \in channels, s \in Statuses : SubscribeCallback(c, s)

SpecRetry == InitRetry /\ [][NextRetry]_vars

\* ------------------------------------------------ retryOperation: claims
AllRejected(n) == \A j \in 1..n : opLog[j].kind = "reject"

\* C1: if the operation rejects on its first N-1 invocations and resolves on
\* the N-th (1 <= N <= maxRetries), retryOperation resolves with that N-th
\* value and the operation has been invoked exactly N times: a resolving
\* invocation is always the last one, and a call with maxRetries >= 1 that
\* resolved did so with the value of its last invocation.
RetryResolvesWithNthValue ==
  /\ \A k \in 1..Len(opLog) : opLog[k].kind = "resolve" =>
        /\ k = Len(opLog)
        /\ k <= rMax
        /\ AllRejected(k - 1)
        /\ rPc = "resolved"
        /\ rResult = [kind |-> "value", val |-> opLog[k].val]
  /\ (rPc = "resolved" /\ rMax >= 1) =>
        /\ Len(opLog) \in 1..rMax
        /\ opLog[Len(opLog)].kind = "resolve"

RetryResolvedOnThirdAttempt ==
  /\ rPc = "resolved"
  /\ Len(opLog) = 3
  /\ AllRejected(2)
  /\ rResult = [kind |-> "value", val |-> opLog[3].val]

\* C2: with maxRetries >= 1 and an operation that rejects on every
\* invocation, the operation is invoked exactly maxRetries times and
\* retryOperation rejects with the error of the last invocation.
RetryRejectsWithLastError ==
  (rMax >= 1 /\ AllRejected(Len(opLog))) =>
     /\ Len(opLog) <= rMax
     /\ (Len(opLog) = rMax) <=> (rPc = "rejected")
     /\ (rPc = "rejected") =>
          rResult = [kind |-> "error", val |-> opLog[rMax].val]

RetryExhaustedWithDifferentErrors ==
  /\ rPc = "rejected"
  /\ rMax = 3
  /\ Len(opLog) = 3
  /\ opLog[1].val # opLog[3].val
  /\ rResult.val = opLog[3].val

\* the k-th invocation (k from 0) is followed, unless it ends the call, by
\* one wait of delay * 2^k and then one checkRealtimeHealth, in that order
TraceShape ==
  \A n \in 1..Len(trace) :
    LET k == (n - 1) \div 3
        r == (n - 1) % 3
    IN  /\ (r = 0) => trace[n] = [ev |-> "call", arg |-> k]
        /\ (r = 1) => trace[n] = [ev |-> "wait", arg |-> rDelay * Pow2(k)]
        /\ (r = 2) => trace[n] = [ev |-> "health", arg |-> k]

\* after the final failed invocation there is neither a wait nor a re-check
NothingAfterFinalFailure ==
  (rPc = "rejected") =>
     /\ Len(trace) = 3 * (rMax - 1) + 1
     /\ trace[Len(trace)].ev = "call"

WaitsStrictlyIncrease ==
  \A m, n \in 1..Len(trace) :
    (m < n /\ trace[m].ev = "wait" /\ trace[n].ev = "wait")
      => trace[m].arg < trace[n].arg

\* C3 as stated: wait of delay * 2^i then one health check between
\* invocations, nothing after the final failure, and the waits strictly
\* increase (for every delay).
RetryOrderingStrictForEveryDelay ==
  TraceShape /\ NothingAfterFinalFailure /\ WaitsStrictlyIncrease

\* C3 (amended): between the i-th failed invocation and the next there is
\* exactly one wait of delay * 2^i followed by exactly one
\* checkRealtimeHealth; after the final failed invocation there is neither;
\* the waits strictly increase whenever delay > 0 (with delay = 0 every wait
\* is 0).
RetryOrderingBackoff ==
  /\ TraceShape
  /\ NothingAfterFinalFailure
  /\ (rDelay > 0) => WaitsStrictlyIncrease
  /\ (rDelay = 0) => \A n \in 1..Len(trace) :
                        trace[n].ev = "wait" => trace[n].arg = 0

RetryThreeWaitsThenExhausted ==
  /\ rPc = "rejected"
  /\ rMax = 4
  /\ rDelay = DefaultDelay
  /\ Len(trace) = 10
  /\ trace[2].arg = 1000 /\ trace[5].arg = 2000 /\ trace[8].arg = 4000

\* ----------------------------------------------------- database: tables
GroupRowIds == {g.id : g \in groups}
ViewCodes == {p.view_code : p \in user_profiles}
InviteCodes == {g.invite_code : g \in groups}
MemberRows(g, u) == {m \in group_members : m.group_id = g /\ m.user_id = u}
IsMember(g, u) == MemberRows(g, u) # {}
IsCreator(g, u) == \E m \in MemberRows(g, u) : m.is_creator
HasProfile(u) == \E p \in user_profiles : p.id = u

ProfileInsertError_noUnique(row) ==
  IF \E p \in user_profiles : p.id = row.id
    THEN "user_profiles_pkey"
    ELSE "ok"

\* INSERT INTO user_profiles: PRIMARY KEY (id), UNIQUE (view_code)
ProfileInsertError(row) ==
  IF \E p \in user_profiles : p.id = row.id
    THEN "user_profiles_pkey"
    ELSE IF \E p \in user_profiles : p.view_code = row.view_code
      THEN "user_profiles_view_code_key"
      ELSE "ok"

\* INSERT INTO groups: UNIQUE (invite_code); the id is a fresh uuid
GroupInsertError(row) ==
  IF \E g \in groups : g.id = row.id
    THEN "groups_pkey"
    ELSE IF \E g \in groups : g.invite_code = row.invite_code
      THEN "groups_invite_code_key"
      ELSE "ok"

MemberInsertError_noPrimaryKey(uid, row) ==
  IF uid # row.user_id
    THEN "rls_violation"
    ELSE IF row.group_id \notin GroupRowIds \/ row.user_id \notin authUsers
      THEN "fk_violation"
      ELSE "ok"

\* INSERT INTO group_members by authenticated user uid: policy
\* "Authenticated users can join groups", the two foreign keys,
\* PRIMARY KEY (group_id, user_id)
MemberInsertError(uid, row) ==
  IF uid # row.user_id
    THEN "rls_violation"
    ELSE IF row.group_id \notin GroupRowIds \/ row.user_id \notin authUsers
      THEN "fk_violation"
      ELSE IF MemberRows(row.group_id, row.user_id) # {}
        THEN "group_members_pkey"
        ELSE "ok"

\* policy "Group members can send messages": only membership of the caller
\* in messages.group_id is checked; sender is an unconstrained text column
MessageInsertError(uid, row) ==
  IF IsMember(row.group_id, uid) THEN "ok" ELSE "rls_violation"

\* policy "Group members can create meetings" and the foreign key to groups
MeetingInsertError(uid, row) ==
  IF ~IsMember(row.group_id, uid)
    THEN "rls_violation"
    ELSE IF row.group_id \notin GroupRowIds THEN "fk_violation" ELSE "ok"

handle_new_user_emptyCode(newId, code) ==
  IF HasProfile(newId)
    THEN user_profiles
    ELSE user_profiles \cup {[id |-> newId, view_code |-> ""]}

\* trigger on_auth_user_created (function of the latest migration): code is
\* the value of encode(gen_random_bytes(6), 'base64')
handle_new_user(newId, code) ==
  IF HasProfile(newId)
    THEN user_profiles
    ELSE IF ProfileInsertError([id |-> newId, view_code |-> code]) # "ok"
      THEN user_profiles      \* EXCEPTION WHEN OTHERS: warning, RETURN NEW
      ELSE user_profiles \cup {[id |-> newId, view_code |-> code]}

handle_new_user_raises_noHandler(newId, code) ==
  /\ ~HasProfile(newId)
  /\ ProfileInsertError([id |-> newId, view_code |-> code]) # "ok"

\* whether the trigger function ends with an error, which would abort the
\* insert into auth.users: EXCEPTION WHEN OTHERS THEN ... RETURN NEW
handle_new_user_raises(newId, code) == FALSE

handle_group_deletion_keepsMessages(g) ==
  [messages |-> messages,
   meetings |-> {m \in meetings : m.group_id # g},
   group_members |-> {m \in group_members : m.group_id # g}]

\* trigger before_group_delete
handle_group_deletion(g) ==
  [messages |-> {m \in messages : m.group_id # g},
   meetings |-> {m \in meetings : m.group_id # g},
   group_members |-> {m \in group_members : m.group_id # g}]

\* ON DELETE CASCADE of meetings.group_id and group_members.group_id;
\* messages.group_id has no foreign key
OnDeleteCascade(g, t) ==
  [messages |-> t.messages,
   meetings |-> {m \in t.meetings : m.group_id # g},
   group_members |-> {m \in t.group_members : m.group_id # g}]

\* ------------------------------------------------- database: requests
\* a row is inserted into auth.users; the trigger runs in the same statement
SignUp(u, code) ==
  /\ u \notin authUsers
  /\ authUsers' = IF handle_new_user_raises(u, code) THEN authUsers
                  ELSE authUsers \cup {u}
  /\ user_profiles' = IF handle_new_user_raises(u, code)
                        THEN user_profiles
                        ELSE handle_new_user(u, code)
  /\ lastErr' = IF HasProfile(u) THEN "ok"
                ELSE ProfileInsertError([id |-> u, view_code |-> code])
  /\ UNCHANGED <<groups, group_members, messages, meetings, nextGroupId,
                 nextMessageId, nextMeetingId, deletedGroups>>
  /\ UNCHANGED createGroupVars
  /\ UNCHANGED <<retryVars, healthVars, searchVars, clientVars>>

\* Dashboard.fetchProfile: the select found no row, the default profile is
\* inserted without a view_code (column default: a generated code)
fetchProfileInsert(u, code) ==
  /\ u \in authUsers
  /\ ~HasProfile(u)
  /\ LET row == [id |-> u, view_code |-> code]
         err == ProfileInsertError(row)
     IN  /\ user_profiles' = IF err = "ok" THEN user_profiles \cup {row}
                                           ELSE user_profiles
         /\ lastErr' = err
  /\ UNCHANGED <<authUsers, groups, group_members, messages, meetings,
                 nextGroupId, nextMessageId, nextMeetingId, deletedGroups>>
  /\ UNCHANGED createGroupVars
  /\ UNCHANGED <<retryVars, healthVars, searchVars, clientVars>>

\* Profile.handleSave: upsert of the caller's row without a view_code; an
\* existing row keeps its view code, a new row gets a generated one
handleSave(u, code) ==
  /\ u \in authUsers
  /\ LET row == [id |-> u, view_code |-> code]
         err == IF HasProfile(u) THEN "ok" ELSE ProfileInsertError(row)
     IN  /\ user_profiles' = IF ~HasProfile(u) /\ err = "ok"
                               THEN user_profiles \cup {row}
                               ELSE user_profiles
         /\ lastErr' = err
  /\ UNCHANGED <<authUsers, groups, group_members, messages, meetings,
                 nextGroupId, nextMessageId, nextMeetingId, deletedGroups>>
  /\ UNCHANGED createGroupVars
  /\ UNCHANGED <<retryVars, healthVars, searchVars, clientVars>>

\* Dashboard.handleCreateGroup, first request: insert into groups with the
\* client-generated invite code and max_members: maxMembers; on createError
\* the handler returns
CreateGroupInsertWith(u, code, maxMembers, resp) ==
  /\ cgPc = "idle"
  /\ u \in authUsers
  /\ nextGroupId <= MaxGroups
  /\ LET row == [id |-> nextGroupId, invite_code |-> code,
                 max_members |-> maxMembers]
         err == IF resp = "error" THEN "request_failed"
                                  ELSE GroupInsertError(row)
     IN  /\ lastErr' = err
         /\ IF err = "ok"
              THEN /\ groups' = groups \cup {row}
                   /\ nextGroupId' = nextGroupId + 1
                   /\ cgPc' = "memberInsert"
                   /\ cgUser' = u
                   /\ cgGroup' = row.id
              ELSE UNCHANGED <<groups, nextGroupId, cgPc, cgUser, cgGroup>>
  /\ UNCHANGED <<authUsers, user_profiles, group_members, messages, meetings,
                 nextMessageId, nextMeetingId, deletedGroups, cgCreated>>
  /\ UNCHANGED <<retryVars, healthVars, searchVars, clientVars>>

\* handleCreateGroup by a creator who leaves the member limit at the
\* column default
CreateGroupInsert(u, code, resp) ==
  CreateGroupInsertWith(u, code, DefaultMaxMembers, resp)

\* Dashboard.handleCreateGroup, second request: insert the creator's
\* membership row; on memberError the handler returns, the group stays
CreateGroupMemberInsert(resp) ==
  /\ cgPc = "memberInsert"
  /\ LET row == [group_id |-> cgGroup, user_id |-> cgUser, is_creator |-> TRUE]
         err == IF resp = "error" THEN "request_failed"
                                  ELSE MemberInsertError(cgUser, row)
     IN  /\ lastErr' = err
         /\ group_members' = IF err = "ok" THEN group_members \cup {row}
                                           ELSE group_members
  /\ cgCreated' = cgCreated \cup {[group |-> cgGroup, user |-> cgUser]}
  /\ cgPc' = "idle"
  /\ cgUser' = Null
  /\ cgGroup' = 0
  /\ UNCHANGED <<authUsers, user_profiles, groups, messages, meetings,
                 nextGroupId, nextMessageId, nextMeetingId, deletedGroups>>
  /\ UNCHANGED <<retryVars, healthVars, searchVars, clientVars>>

\* joining with an invite code: the group with that code is looked up and a
\* membership row for the caller is inserted
JoinGroup(u, code) ==
  /\ u \in authUsers
  /\ LET gs == {g \in groups : g.invite_code = code}
     IN  IF gs = {}
           THEN /\ lastErr' = "not_found"
                /\ UNCHANGED group_members
           ELSE LET g == CHOOSE x \in gs : TRUE
                    row == [group_id |-> g.id, user_id |-> u,
                            is_creator |-> FALSE]
                    err == MemberInsertError(u, row)
                IN  /\ lastErr' = err
                    /\ group_members' = IF err = "ok"
                                          THEN group_members \cup {row}
                                          ELSE group_members
  /\ UNCHANGED <<authUsers, user_profiles, groups, messages, meetings,
                 nextGroupId, nextMessageId, nextMeetingId, deletedGroups>>
  /\ UNCHANGED createGroupVars
  /\ UNCHANGED <<retryVars, healthVars, searchVars, clientVars>>

\* any insert into group_members an authenticated client may send
InsertGroupMember(u, g, target, creator) ==
  /\ u \in authUsers
  /\ LET row == [group_id |-> g, user_id |-> target, is_creator |-> creator]
         err == MemberInsertError(u, row)
     IN  /\ lastErr' = err
         /\ group_members' = IF err = "ok" THEN group_members \cup {row}
                                           ELSE group_members
  /\ UNCHANGED <<authUsers, user_profiles, groups, messages, meetings,
                 nextGroupId, nextMessageId, nextMeetingId, deletedGroups>>
  /\ UNCHANGED createGroupVars
  /\ UNCHANGED <<retryVars, healthVars, searchVars, clientVars>>

\* any insert into messages an authenticated client may send; by records
\* auth.uid() of the request and is not a column
InsertMessage(u, sender, g) ==
  /\ u \in authUsers
  /\ nextMessageId <= MaxMessages
  /\ LET row == [id |-> nextMessageId, sender |-> sender, group_id |-> g,
                 by |-> u]
         err == MessageInsertError(u, row)
     IN  /\ lastErr' = err
         /\ IF err = "ok"
              THEN /\ messages' = messages \cup {row}
                   /\ nextMessageId' = nextMessageId + 1
              ELSE UNCHANGED <<messages, nextMessageId>>
  /\ UNCHANGED <<authUsers, user_profiles, groups, group_members, meetings,
                 nextGroupId, nextMeetingId, deletedGroups>>
  /\ UNCHANGED createGroupVars
  /\ UNCHANGED <<retryVars, healthVars, searchVars, clientVars>>

\* any insert into meetings an authenticated client may send
InsertMeeting(u, g) ==
  /\ u \in authUsers
  /\ nextMeetingId <= MaxMeetings
  /\ LET row == [id |-> nextMeetingId, group_id |-> g]
         err == MeetingInsertError(u, row)
     IN  /\ lastErr' = err
         /\ IF err = "ok"
              THEN /\ meetings' = meetings \cup {row}
                   /\ nextMeetingId' = nextMeetingId + 1
              ELSE UNCHANGED <<meetings, nextMeetingId>>
  /\ UNCHANGED <<authUsers, user_profiles, groups, group_members, messages,
                 nextGroupId, nextMessageId, deletedGroups>>
  /\ UNCHANGED createGroupVars
  /\ UNCHANGED <<retryVars, healthVars, searchVars, clientVars>>

\* DELETE FROM groups WHERE id = g by authenticated user u: policy "Group
\* creators can delete groups", trigger before_group_delete, then the
\* foreign-key cascades, in one statement
DeleteGroup(u, g) ==
  /\ u \in authUsers
  /\ IF g \in GroupRowIds /\ IsCreator(g, u)
       THEN LET t == OnDeleteCascade(g, handle_group_deletion(g))
            IN  /\ messages' = t.messages
                /\ meetings' = t.meetings
                /\ group_members' = t.group_members
                /\ groups' = {x \in groups : x.id # g}
                /\ deletedGroups' = deletedGroups \cup
                     {[id |-> g,
                       cascaded |-> /\ \E m \in messages : m.group_id = g
                                    /\ \E m \in meetings : m.group_id = g]}
                /\ lastErr' = "ok"
                /\ cgCreated' = {c \in cgCreated : c.group # g}
       ELSE /\ lastErr' = "no_rows"
            /\ UNCHANGED <<messages, meetings, group_members, groups,
                           deletedGroups, cgCreated>>
  /\ UNCHANGED <<authUsers, user_profiles, nextGroupId, nextMessageId,
                 nextMeetingId>>
  /\ UNCHANGED <<cgPc, cgUser, cgGroup>>
  /\ UNCHANGED <<retryVars, healthVars, searchVars, clientVars>>

RetryIdle ==
  /\ rPc = "loop"
  /\ rI = 0
  /\ rMax = DefaultMaxRetries
  /\ rDelay = DefaultDelay
  /\ rResult = NoResult
  /\ opLog = <<>>
  /\ trace = <<>>

\* ------------------------------------------- FindPersonModal.handleSearch
\* the form is submitted: the state is reset and the profile query is sent
SearchSubmit(code) ==
  /\ fpPc \in {"idle", "done"}
  /\ fpViewCode' = code
  /\ fpError' = Null
  /\ fpProfile' = {}
  /\ fpGroups' = {}
  /\ fpLoading' = TRUE
  /\ fpGroupIds' = {}
  /\ fpFailed' = "none"
  /\ fpPc' = "profileQuery"
  /\ UNCHANGED <<tableVars, lastErr, createGroupVars>>
  /\ UNCHANGED <<retryVars, healthVars, clientVars>>

\* user_profiles ... .eq('view_code', viewCode).single() answers: any error
\* (also "not exactly one row") is rethrown as 'User not found'
SearchProfileResponse(resp) ==
  /\ fpPc = "profileQuery"
  /\ LET rows == {p \in user_profiles : p.view_code = fpViewCode}
         profileError == resp = "error" \/ Cardinality(rows) # 1
     IN  IF profileError
           THEN /\ fpError' = "User not found"
                /\ fpLoading' = FALSE
                /\ fpPc' = "done"
                /\ UNCHANGED fpProfile
           ELSE /\ fpProfile' = rows
                /\ fpPc' = "memberQuery"
                /\ UNCHANGED <<fpError, fpLoading>>
  /\ fpFailed' = IF resp = "error" THEN "profile" ELSE fpFailed
  /\ UNCHANGED <<fpViewCode, fpGroupIds, fpGroups>>
  /\ UNCHANGED <<tableVars, lastErr, createGroupVars>>
  /\ UNCHANGED <<retryVars, healthVars, clientVars>>

\* group_members ... .eq('user_id', profileData.id) answers: the groups
\* query is sent only if (!memberError && memberData.length > 0)
SearchMembersResponse(resp) ==
  /\ fpPc = "memberQuery"
  /\ LET memberData == {m.group_id : m \in
                          {x \in group_members :
                             \E p \in fpProfile : x.user_id = p.id}}
     IN  IF resp = "ok" /\ memberData # {}
           THEN /\ fpGroupIds' = memberData
                /\ fpPc' = "groupsQuery"
                /\ UNCHANGED fpLoading
           ELSE /\ fpLoading' = FALSE
                /\ fpPc' = "done"
                /\ UNCHANGED fpGroupIds
  /\ fpFailed' = IF resp = "error" THEN "members" ELSE fpFailed
  /\ UNCHANGED <<fpViewCode, fpProfile, fpGroups, fpError>>
  /\ UNCHANGED <<tableVars, lastErr, createGroupVars>>
  /\ UNCHANGED <<retryVars, healthVars, clientVars>>

SearchGroupsResponse_allGroups(resp) ==
  /\ fpPc = "groupsQuery"
  /\ fpGroups' = IF resp = "ok" THEN groups ELSE {}
  /\ fpLoading' = FALSE
  /\ fpPc' = "done"
  /\ fpFailed' = IF resp = "error" THEN "groups" ELSE fpFailed
  /\ UNCHANGED <<fpViewCode, fpGroupIds, fpProfile, fpError>>
  /\ UNCHANGED <<tableVars, lastErr, createGroupVars>>
  /\ UNCHANGED <<retryVars, healthVars, clientVars>>

\* groups ... .in('id', groupIds) answers: setGroups(groupsData || [])
SearchGroupsResponse(resp) ==
  /\ fpPc = "groupsQuery"
  /\ fpGroups' = IF resp = "ok" THEN {g \in groups : g.id \in fpGroupIds}
                                ELSE {}
  /\ fpLoading' = FALSE
  /\ fpPc' = "done"
  /\ fpFailed' = IF resp = "error" THEN "groups" ELSE fpFailed
  /\ UNCHANGED <<fpViewCode, fpGroupIds, fpProfile, fpError>>
  /\ UNCHANGED <<tableVars, lastErr, createGroupVars>>
  /\ UNCHANGED <<retryVars, healthVars, clientVars>>

\* ------------------------------------------------------- specifications
\* the database after both users have signed up
SignedUpInit ==
  /\ authUsers = Users
  /\ user_profiles = {[id |-> "u1", view_code |-> "c1"],
                      [id |-> "u2", view_code |-> "c2"]}
  /\ groups = {}
  /\ group_members = {}
  /\ messages = {}
  /\ meetings = {}
  /\ nextGroupId = 1
  /\ nextMessageId = 1
  /\ nextMeetingId = 1
  /\ deletedGroups = {}
  /\ lastErr = "ok"
  /\ cgPc = "idle"
  /\ cgUser = Null
  /\ cgGroup = 0
  /\ cgCreated = {}

InitSignedUp ==
  RetryIdle /\ HealthInit /\ SignedUpInit /\ SearchInit /\ ClientInit

\* group creation, joining and deletion
NextGroups ==
  \/ \E u \in Users, c \in Codes, r \in Responses : CreateGroupInsert(u, c, r)
  \/ \E r \in Responses : CreateGroupMemberInsert(r)
  \/ \E u \in Users, c \in Codes : JoinGroup(u, c)
  \/ \E u \in Users, g \in GroupIds, t \in Users, cr \in BOOLEAN :
       InsertGroupMember(u, g, t, cr)
  \/ \E u \in Users, g \in GroupIds : DeleteGroup(u, g)

SpecGroups == InitSignedUp /\ [][NextGroups]_vars

\* messages of any sender in groups that are created and joined
NextMessages ==
  \/ \E u \in Users, c \in Codes, r \in Responses : CreateGroupInsert(u, c, r)
  \/ \E r \in Responses : CreateGroupMemberInsert(r)
  \/ \E u \in Users, c \in Codes : JoinGroup(u, c)
  \/ \E u \in Users, s \in Senders, g \in GroupIds : InsertMessage(u, s, g)

SpecMessages == InitSignedUp /\ [][NextMessages]_vars

\* deletion of groups that have members, messages and meetings; members
\* join as non-creators and messages are sent under the caller's own id
NextCascade ==
  \/ \E u \in Users, c \in Codes, r \in Responses : CreateGroupInsert(u, c, r)
  \/ \E r \in Responses : CreateGroupMemberInsert(r)
  \/ \E u \in Users, c \in Codes : JoinGroup(u, c)
  \/ \E u \in Users, g \in GroupIds : InsertGroupMember(u, g, u, FALSE)
  \/ \E u \in Users, g \in GroupIds : InsertMessage(u, u, g)
  \/ \E u \in Users, g \in GroupIds : InsertMeeting(u, g)
  \/ \E u \in Users, g \in GroupIds : DeleteGroup(u, g)

SpecCascade == InitSignedUp /\ [][NextCascade]_vars

\* signups, profile creation and group creation
InitProfiles == RetryIdle /\ HealthInit /\ DbInit /\ SearchInit /\ ClientInit

NextProfiles ==
  \/ \E u \in Users, c \in Codes : SignUp(u, c)
  \/ \E u \in Users, c \in Codes : fetchProfileInsert(u, c)
  \/ \E u \in Users, c \in Codes : handleSave(u, c)
  \/ \E u \in Users, c \in Codes, r \in Responses : CreateGroupInsert(u, c, r)
  \/ \E r \in Responses : CreateGroupMemberInsert(r)
  \/ \E u \in Users, g \in GroupIds : DeleteGroup(u, g)

SpecProfiles == InitProfiles /\ [][NextProfiles]_vars

\* person search against a database that does not change while a search runs
SearchQuiescent == fpPc \in {"idle", "done"}

NextSearch ==
  \/ SearchQuiescent /\ \E u \in Users, c \in Codes : SignUp(u, c)
  \/ SearchQuiescent /\ \E u \in Users, c \in Codes, r \in Responses :
       CreateGroupInsert(u, c, r)
  \/ SearchQuiescent /\ \E r \in Responses : CreateGroupMemberInsert(r)
  \/ SearchQuiescent /\ \E u \in Users, c \in Codes : JoinGroup(u, c)
  \/ \E c \in Codes : SearchSubmit(c)
  \/ \E r \in Responses : SearchProfileResponse(r)
  \/ \E r \in Responses : SearchMembersResponse(r)
  \/ \E r \in Responses : SearchGroupsResponse(r)

SpecSearch == InitProfiles /\ [][NextSearch]_vars

\* ----------------------------------------------------- database: claims
RowsOf(table, g, u) == {m \in table : m.group_id = g /\ m.user_id = u}

\* C4: handleCreateGroup produces a group whose invite code is non-empty and
\* differs from every other group's, and in every state after the handler
\* has finished every group it created has the membership row (group,
\* creating user, is_creator = true).
CreatedGroupHasCreatorRow ==
  /\ \A g \in groups :
       /\ g.invite_code # ""
       /\ \A h \in groups : h.id # g.id => h.invite_code # g.invite_code
  /\ \A c \in cgCreated :
       c.group \in GroupRowIds =>
         [group_id |-> c.group, user_id |-> c.user, is_creator |-> TRUE]
           \in group_members

\* user u asks the database to make them a member of the existing group g:
\* by joining with g's invite code, or by inserting the row directly
JoinAttempt(u, g) ==
  \/ \E c \in Codes :
       /\ \E x \in groups : x.id = g /\ x.invite_code = c
       /\ JoinGroup(u, c)
  \/ \E cr \in BOOLEAN : InsertGroupMember(u, g, u, cr)

\* C5: a join attempt by user U for group G leaves exactly one row (G, U)
\* in group_members; when a row (G, U) existed before the attempt, the
\* table is unchanged.
JoinIsIdempotent ==
  [][\A u \in Users, g \in GroupRowIds :
       JoinAttempt(u, g) =>
          /\ Cardinality(RowsOf(group_members', g, u)) = 1
          /\ (RowsOf(group_members, g, u) # {}) =>
                group_members' = group_members]_vars

RepeatedJoinRejected ==
  /\ lastErr = "group_members_pkey"
  /\ \E m \in group_members :
       /\ ~m.is_creator
       /\ Cardinality(RowsOf(group_members, m.group_id, m.user_id)) = 1

\* the state in which a search ends according to C6
SearchOutcome ==
  /\ fpLoading = FALSE
  /\ LET ps == {p \in user_profiles : p.view_code = fpViewCode}
     IN  IF ps # {}
           THEN /\ fpProfile = ps
                /\ fpGroups = {g \in groups :
                                 \E p \in ps : IsMember(g.id, p.id)}
                /\ fpError = Null
           ELSE /\ fpProfile = {}
                /\ fpGroups = {}
                /\ fpError = "User not found"

SearchEnds == fpPc # "done" /\ fpPc' = "done"

SearchOutcomeAfterError ==
  /\ fpLoading = FALSE
  /\ fpGroups = {}
  /\ IF fpFailed = "profile"
       THEN fpProfile = {} /\ fpError = "User not found"
       ELSE /\ fpProfile = {p \in user_profiles : p.view_code = fpViewCode}
            /\ fpProfile # {}
            /\ fpError = Null

CodesAreUnique ==
  /\ \A p, q \in user_profiles : p # q => p.view_code # q.view_code
  /\ \A g, h \in groups : g # h => g.invite_code # h.invite_code

DuplicateCodeRejected ==
  /\ Cardinality(user_profiles) = 2
  /\ Cardinality(groups) = 1
  /\ lastErr = "groups_invite_code_key"

\* C9: every stored message's sender is an existing user or 'system', and a
\* group member cannot store a message whose sender is 'system' or another
\* user.
SenderIsUserOrSystem ==
  \A m \in messages :
    /\ m.sender \in authUsers \cup {SystemSender}
    /\ m.sender # SystemSender
    /\ m.sender \notin Users \ {m.by}

NewUsers(u) == u \notin authUsers /\ u \in authUsers'

\* C10 as stated: after a row is inserted into auth.users the trigger has
\* created a user_profiles row with the new user's id and a non-empty view
\* code.
SignupCreatesProfile ==
  [][\A u \in Users :
       NewUsers(u) =>
         \E p \in user_profiles' : p.id = u /\ p.view_code # ""]_vars

\* C10 (amended): after a row is inserted into auth.users, either the
\* trigger has created a user_profiles row with the new user's id and a
\* non-empty view code, or its insert raised an error (the generated view
\* code is the view code of an existing profile), the trigger swallowed it
\* and no row with the new user's id exists.
SignupCreatesProfileUnlessInsertFails ==
  [][\A u \in Users :
       NewUsers(u) =>
         \/ \E p \in user_profiles' :
              /\ p.id = u
              /\ p.view_code # ""
              /\ p.view_code \notin ViewCodes
              /\ user_profiles' = user_profiles \cup {p}
         \/ /\ lastErr' = "user_profiles_view_code_key"
            /\ user_profiles' = user_profiles
            /\ \A p \in user_profiles' : p.id # u]_vars

SignupWithAndWithoutProfile ==
  /\ authUsers = Users
  /\ \E u \in authUsers : HasProfile(u)
  /\ \E u \in authUsers : ~HasProfile(u)
  /\ lastErr = "user_profiles_view_code_key"

\* ------------------------------------------- user_profiles: client writes
ViewCodeValues == Codes \cup {""}

ProfileRows == [id : Users, view_code : ViewCodeValues]

\* policy "Users can create own profile": WITH CHECK (auth.uid() = id)
ProfileInsertPolicy(uid, row) == uid = row.id

ProfileUpdateUsing_true(uid, old) == TRUE

\* policy "Users can update own profile": USING (auth.uid() = id), applied
\* to the stored row
ProfileUpdateUsing(uid, old) == uid = old.id

\* policy "Users can update own profile": WITH CHECK (auth.uid() = id),
\* applied to the row as updated
ProfileUpdateCheck(uid, new) == uid = new.id

\* PRIMARY KEY (id) and UNIQUE (view_code) for the row new replacing old
ProfileUpdateError(old, new) ==
  IF \E p \in user_profiles \ {old} : p.id = new.id
    THEN "user_profiles_pkey"
    ELSE IF \E p \in user_profiles \ {old} : p.view_code = new.view_code
      THEN "user_profiles_view_code_key"
      ELSE "ok"

\* INSERT INTO user_profiles of any row by the authenticated client u
InsertProfile(u, row) ==
  /\ u \in authUsers
  /\ LET err == IF ~ProfileInsertPolicy(u, row) THEN "rls_violation"
                                               ELSE ProfileInsertError(row)
     IN  /\ lastErr' = err
         /\ user_profiles' = IF err = "ok" THEN user_profiles \cup {row}
                                           ELSE user_profiles
  /\ UNCHANGED <<authUsers, groups, group_members, messages, meetings,
                 nextGroupId, nextMessageId, nextMeetingId, deletedGroups>>
  /\ UNCHANGED createGroupVars
  /\ UNCHANGED <<retryVars, healthVars, searchVars, clientVars>>

\* UPDATE user_profiles SET (id, view_code) = new WHERE id = target by the
\* authenticated client u: a row the USING clause hides is not updated, an
\* updated row failing WITH CHECK raises an error
UpdateProfile(u, target, new) ==
  /\ u \in authUsers
  /\ LET olds == {p \in user_profiles :
                    p.id = target /\ ProfileUpdateUsing(u, p)}
     IN  IF olds = {}
           THEN /\ lastErr' = "no_rows"
                /\ UNCHANGED user_profiles
           ELSE LET old == CHOOSE p \in olds : TRUE
                    err == IF ~ProfileUpdateCheck(u, new)
                             THEN "rls_violation"
                             ELSE ProfileUpdateError(old, new)
                IN  /\ lastErr' = err
                    /\ user_profiles' =
                         IF err = "ok"
                           THEN (user_profiles \ {old}) \cup {new}
                           ELSE user_profiles
  /\ UNCHANGED <<authUsers, groups, group_members, messages, meetings,
                 nextGroupId, nextMessageId, nextMeetingId, deletedGroups>>
  /\ UNCHANGED createGroupVars
  /\ UNCHANGED <<retryVars, healthVars, searchVars, clientVars>>

\* INSERT ... ON CONFLICT (id) DO UPDATE (the request of Profile.handleSave
\* with any row) by the authenticated client u: the insert policy is applied
\* to the proposed row, the update policy to the conflicting row
UpsertProfile(u, row) ==
  /\ u \in authUsers
  /\ LET olds == {p \in user_profiles : p.id = row.id}
         err ==
           IF ~ProfileInsertPolicy(u, row)
             THEN "rls_violation"
             ELSE IF olds = {}
               THEN ProfileInsertError(row)
               ELSE LET old == CHOOSE p \in olds : TRUE
                    IN  IF ~(ProfileUpdateUsing(u, old)
                               /\ ProfileUpdateCheck(u, row))
                          THEN "rls_violation"
                          ELSE ProfileUpdateError(old, row)
     IN  /\ lastErr' = err
         /\ user_profiles' =
              IF err = "ok" THEN (user_profiles \ olds) \cup {row}
                            ELSE user_profiles
  /\ UNCHANGED <<authUsers, groups, group_members, messages, meetings,
                 nextGroupId, nextMessageId, nextMeetingId, deletedGroups>>
  /\ UNCHANGED createGroupVars
  /\ UNCHANGED <<retryVars, healthVars, searchVars, clientVars>>

\* the handlers of SpecProfiles and every write to user_profiles a client
\* can send through the API
NextProfileWrites ==
  \/ NextProfiles
  \/ \E u \in Users, row \in ProfileRows : InsertProfile(u, row)
  \/ \E u \in Users, target \in Users, row \in ProfileRows :
       UpdateProfile(u, target, row)
  \/ \E u \in Users, row \in ProfileRows : UpsertProfile(u, row)

SpecProfileWrites == InitProfiles /\ [][NextProfileWrites]_vars

ProfilesOf(t) == {p \in user_profiles : p.id = t}

\* a write to user_profiles sent by the authenticated client u
ProfileWriteBy(u) ==
  \/ \E code \in Codes : handleSave(u, code)
  \/ \E row \in ProfileRows : InsertProfile(u, row)
  \/ \E target \in Users, row \in ProfileRows : UpdateProfile(u, target, row)
  \/ \E row \in ProfileRows : UpsertProfile(u, row)

\* C11: a profile is written by its owning user only: no insert, update or
\* upsert sent by a user u creates, changes or removes the profile row of a
\* different id t, whatever row and target the request names
ProfileWrittenByOwnerOnly ==
  [][\A u \in Users : \A t \in Users \ {u} :
       ProfileWriteBy(u) => ProfilesOf(t)' = ProfilesOf(t)]_vars

\* both users have a profile, one of them rewritten by its owner to the
\* empty view code, and the last write was refused by a policy
ForeignProfileWriteRefused ==
  /\ Cardinality(user_profiles) = 2
  /\ \E p \in user_profiles : p.view_code = ""
  /\ lastErr = "rls_violation"

\* ------------------------------------------------ messages: client access
\* messages.group_id is a nullable uuid without a foreign key
NullGroupId == 0

MessageGroupIds == GroupIds \cup {NullGroupId}

TableOwner == "service_role"

\* the SQL comparison a = b as a WHERE condition: a comparison with NULL
\* is not true
SqlEq(a, b) == IF a = NullGroupId \/ b = NullGroupId THEN FALSE ELSE a = b

MessageReadPolicy_anyGroup(uid, row) ==
  \E gm \in group_members : gm.user_id = uid

\* policy "Group members can read messages": USING (EXISTS (SELECT 1 FROM
\* group_members WHERE group_id = messages.group_id AND user_id = auth.uid()))
MessageReadPolicy(uid, row) ==
  \E gm \in group_members :
    SqlEq(gm.group_id, row.group_id) /\ gm.user_id = uid

\* SELECT * FROM messages by client uid; the policy is TO authenticated
SelectMessages(uid) ==
  IF uid \in authUsers THEN {m \in messages : MessageReadPolicy(uid, m)}
                       ELSE {}

\* a row written by the table owner (SQL editor, service key), for whom row
\* level security does not apply; the columns accept any group_id
OwnerInsertMessage(g) ==
  /\ nextMessageId <= MaxMessages
  /\ messages' = messages \cup {[id |-> nextMessageId, sender |-> SystemSender,
                                 group_id |-> g, by |-> TableOwner]}
  /\ nextMessageId' = nextMessageId + 1
  /\ lastErr' = "ok"
  /\ UNCHANGED <<authUsers, user_profiles, groups, group_members, meetings,
                 nextGroupId, nextMeetingId, deletedGroups>>
  /\ UNCHANGED createGroupVars
  /\ UNCHANGED <<retryVars, healthVars, searchVars, clientVars>>

MessageUpdatePolicy_bySender(uid, row) == row.by = uid

\* messages has row level security enabled and no UPDATE policy: no stored
\* row is visible to an UPDATE of a client
MessageUpdatePolicy(uid, row) == FALSE

MessageDeletePolicy_bySender(uid, row) == row.by = uid

\* messages has no DELETE policy either
MessageDeletePolicy(uid, row) == FALSE

\* UPDATE messages SET sender, group_id WHERE id = mid by a client
UpdateMessage(u, mid, sender, g) ==
  /\ u \in authUsers
  /\ LET olds == {m \in messages : m.id = mid /\ MessageUpdatePolicy(u, m)}
     IN  /\ messages' = (messages \ olds) \cup
                          {[m EXCEPT !.sender = sender, !.group_id = g] :
                             m \in olds}
         /\ lastErr' = IF olds = {} THEN "no_rows" ELSE "ok"
  /\ UNCHANGED <<authUsers, user_profiles, groups, group_members, meetings,
                 nextGroupId, nextMessageId, nextMeetingId, deletedGroups>>
  /\ UNCHANGED createGroupVars
  /\ UNCHANGED <<retryVars, healthVars, searchVars, clientVars>>

\* DELETE FROM messages WHERE id = mid by a client
DeleteMessage(u, mid) ==
  /\ u \in authUsers
  /\ LET olds == {m \in messages : m.id = mid /\ MessageDeletePolicy(u, m)}
     IN  /\ messages' = messages \ olds
         /\ lastErr' = IF olds = {} THEN "no_rows" ELSE "ok"
  /\ UNCHANGED <<authUsers, user_profiles, groups, group_members, meetings,
                 nextGroupId, nextMessageId, nextMeetingId, deletedGroups>>
  /\ UNCHANGED createGroupVars
  /\ UNCHANGED <<retryVars, healthVars, searchVars, clientVars>>

\* groups with creators and joined members, messages sent by members, a
\* message without a group stored by the table owner, and the client's
\* attempts to change or remove single messages
NextMessageAccess ==
  \/ \E u \in Users, c \in Codes : CreateGroupInsert(u, c, "ok")
  \/ CreateGroupMemberInsert("ok")
  \/ \E u \in Users, c \in Codes : JoinGroup(u, c)
  \/ \E u \in Users, g \in MessageGroupIds : InsertMessage(u, u, g)
  \/ OwnerInsertMessage(NullGroupId)
  \/ \E u \in Users, mid \in 1 .. MaxMessages, g \in MessageGroupIds :
       UpdateMessage(u, mid, SystemSender, g)
  \/ \E u \in Users, mid \in 1 .. MaxMessages : DeleteMessage(u, mid)
  \/ \E u \in Users, g \in GroupIds : DeleteGroup(u, g)

SpecMessageAccess == InitSignedUp /\ [][NextMessageAccess]_vars

\* C12: a select on messages by user u returns a message only if a
\* group_members row (its group_id, u) exists; a message whose group_id is
\* null, or names a group u is not in, is returned to u never
ReadOnlyByGroupMembers ==
  \A u \in Users : \A m \in messages :
    /\ m \in SelectMessages(u) =>
         /\ m.group_id # NullGroupId
         /\ \E gm \in group_members :
              gm.group_id = m.group_id /\ gm.user_id = u
    /\ (m.group_id = NullGroupId \/ MemberRows(m.group_id, u) = {}) =>
         m \notin SelectMessages(u)

\* a stored message is returned to a member of its group and withheld from
\* a user who is a member of another group only
MessageReadByMemberOnly ==
  \E m \in messages : \E u \in Users, v \in Users :
    /\ m \in SelectMessages(u)
    /\ m \notin SelectMessages(v)
    /\ \E gm \in group_members : gm.user_id = v

\* C13: messages are append-only: in every step each stored message row
\* either stays exactly as it is or disappears together with the groups row
\* its group_id names, and the step that deletes a group leaves none of that
\* group's messages; updates and deletes of single messages by clients
\* change nothing
MessagesAppendOnly ==
  [][
      /\ \A m \in messages :
           \/ m \in messages'
           \/ /\ m.group_id \in GroupRowIds
              /\ m.group_id \notin GroupRowIds'
      /\ \A g \in GroupRowIds \ GroupRowIds' :
           \A m \in messages' : m.group_id # g
      /\ \A u \in Users, mid \in 1 .. MaxMessages :
           (DeleteMessage(u, mid)
              \/ \E g \in MessageGroupIds :
                   UpdateMessage(u, mid, SystemSender, g))
             => messages' = messages
    ]_vars

\* a message sent by a client is stored, a group has been deleted, and the
\* last request changed no row
MessageSurvivesRefusedRequest ==
  /\ \E m \in messages : m.by \in Users
  /\ deletedGroups # {}
  /\ lastErr = "no_rows"

\* ------------------------------------------ Dashboard.fetchProfile handler
ProfileMaxRetries == 3

ProfileLoadFailed == "Failed to load profile. Please refresh the page."

\* useEffect on userId: fetchProfile() starts with retryCount = 0
DashFetchProfile(u) ==
  /\ pfPc \in {"idle", "done"}
  /\ u \in authUsers
  /\ pfPc' = "select"
  /\ pfUser' = u
  /\ pfRetry' = 0
  /\ pfSelect' = Null
  /\ pfLog' = <<>>
  /\ pfStart' = dashProfile
  /\ UNCHANGED <<dashProfile, dashError>>
  /\ UNCHANGED <<tableVars, lastErr, createGroupVars, searchVars>>
  /\ UNCHANGED <<retryVars, healthVars>>
  /\ UNCHANGED <<inviteVars, editorVars, viewCodeVars, signOutVars,
                 fetchGroupsVars>>

\* the select .eq('id', userId).maybeSingle() is answered: a row ends the
\* loop and sets the state; otherwise, in the first iteration and whenever
\* data is null, the handler goes on to create the profile
DashProfileSelect(resp) ==
  /\ pfPc = "select"
  /\ LET data == IF resp = "error" THEN {} ELSE ProfilesOf(pfUser)
     IN  IF data # {}
           THEN /\ pfSelect' = "row"
                /\ dashProfile' = data
                /\ dashError' = Null
                /\ pfPc' = "done"
           ELSE /\ pfSelect' = IF resp = "error" THEN "error" ELSE "none"
                /\ pfPc' = IF pfRetry = 0 THEN "getUser" ELSE "wait"
                /\ UNCHANGED <<dashProfile, dashError>>
  /\ pfLog' = Append(pfLog, [ev |-> "select", arg |-> pfRetry])
  /\ UNCHANGED <<pfUser, pfRetry, pfStart>>
  /\ UNCHANGED <<tableVars, lastErr, createGroupVars, searchVars>>
  /\ UNCHANGED <<retryVars, healthVars>>
  /\ UNCHANGED <<inviteVars, editorVars, viewCodeVars, signOutVars,
                 fetchGroupsVars>>

\* supabase.auth.getUser() is answered, with or without a user
DashProfileGetUser(hasUser) ==
  /\ pfPc = "getUser"
  /\ pfPc' = IF hasUser THEN "insert" ELSE "wait"
  /\ UNCHANGED <<pfUser, pfRetry, pfSelect, dashProfile, dashError>>
  /\ UNCHANGED <<pfLog, pfStart>>
  /\ UNCHANGED <<tableVars, lastErr, createGroupVars, searchVars>>
  /\ UNCHANGED <<retryVars, healthVars>>
  /\ UNCHANGED <<inviteVars, editorVars, viewCodeVars, signOutVars,
                 fetchGroupsVars>>

\* the insert of defaultProfile is answered; the row gets the column default
\* of view_code
DashProfileInsert(code, resp) ==
  /\ pfPc = "insert"
  /\ LET row == [id |-> pfUser, view_code |-> code]
         err == IF resp = "error" THEN "request_failed"
                                  ELSE ProfileInsertError(row)
     IN  /\ lastErr' = err
         /\ IF err = "ok"
              THEN /\ user_profiles' = user_profiles \cup {row}
                   /\ dashProfile' = {row}
                   /\ dashError' = Null
                   /\ pfPc' = "done"
              ELSE /\ pfPc' = "wait"
                   /\ UNCHANGED <<user_profiles, dashProfile, dashError>>
  /\ pfLog' = Append(pfLog, [ev |-> "insert", arg |-> pfRetry])
  /\ UNCHANGED <<pfUser, pfRetry, pfSelect, pfStart>>
  /\ UNCHANGED <<authUsers, groups, group_members, messages, meetings,
                 nextGroupId, nextMessageId, nextMeetingId, deletedGroups>>
  /\ UNCHANGED <<createGroupVars, searchVars>>
  /\ UNCHANGED <<retryVars, healthVars>>
  /\ UNCHANGED <<inviteVars, editorVars, viewCodeVars, signOutVars,
                 fetchGroupsVars>>

DashProfileWait_oneMore ==
  /\ pfPc = "wait"
  /\ pfRetry' = pfRetry + 1
  /\ IF pfRetry < ProfileMaxRetries
       THEN /\ pfPc' = "select"
            /\ UNCHANGED dashError
       ELSE /\ pfPc' = "done"
            /\ dashError' = ProfileLoadFailed
  /\ pfLog' = Append(pfLog, [ev |-> "wait", arg |-> 1000 * Pow2(pfRetry)])
  /\ UNCHANGED <<pfUser, pfSelect, dashProfile, pfStart>>
  /\ UNCHANGED <<tableVars, lastErr, createGroupVars, searchVars>>
  /\ UNCHANGED <<retryVars, healthVars>>
  /\ UNCHANGED <<inviteVars, editorVars, viewCodeVars, signOutVars,
                 fetchGroupsVars>>

\* the timer of 1000 * 2^retryCount ms fires: retryCount++, then the loop
\* condition; leaving the loop without a profile throws into the catch block
DashProfileWait ==
  /\ pfPc = "wait"
  /\ pfRetry' = pfRetry + 1
  /\ IF pfRetry + 1 < ProfileMaxRetries
       THEN /\ pfPc' = "select"
            /\ UNCHANGED dashError
       ELSE /\ pfPc' = "done"
            /\ dashError' = ProfileLoadFailed
  /\ pfLog' = Append(pfLog, [ev |-> "wait", arg |-> 1000 * Pow2(pfRetry)])
  /\ UNCHANGED <<pfUser, pfSelect, dashProfile, pfStart>>
  /\ UNCHANGED <<tableVars, lastErr, createGroupVars, searchVars>>
  /\ UNCHANGED <<retryVars, healthVars>>
  /\ UNCHANGED <<inviteVars, editorVars, viewCodeVars, signOutVars,
                 fetchGroupsVars>>

NextDashProfile ==
  \/ \E u \in Users, c \in Codes : SignUp(u, c)
  \/ \E u \in Users, c \in Codes : handleSave(u, c)
  \/ \E u \in Users : DashFetchProfile(u)
  \/ \E r \in Responses : DashProfileSelect(r)
  \/ \E b \in BOOLEAN : DashProfileGetUser(b)
  \/ \E c \in Codes, r \in Responses : DashProfileInsert(c, r)
  \/ DashProfileWait

SpecDashProfile == InitProfiles /\ [][NextDashProfile]_vars

\* C14: Dashboard.fetchProfile, when the select returns no row and no
\* error, goes on to insert the default profile with id = userId and, when
\* that insert succeeds, ends with that profile set and the error cleared;
\* the insert is sent only after a select that returned no row and no error,
\* never after a select that failed
DefaultProfileOnlyWhenRowNotFound ==
  [][
      /\ (DashProfileSelect("ok") /\ ProfilesOf(pfUser) = {})
           => pfPc' = "getUser"
      /\ \A c \in Codes :
           (DashProfileInsert(c, "ok") /\ lastErr' = "ok")
             => /\ dashProfile' = {[id |-> pfUser, view_code |-> c]}
                /\ dashError' = Null
                /\ pfPc' = "done"
      /\ \A c \in Codes, r \in Responses :
           DashProfileInsert(c, r) => pfSelect = "none"
    ]_vars

\* --------------------------------------------------- invite codes: access
\* policy "Anyone can read group data": FOR SELECT TO public USING (true);
\* the rows a select on groups returns to client uid, with every column
SelectGroups(uid) == groups

\* the creator received the inserted row, invite code included, from
\* handleCreateGroup's insert(...).select().single()
CreatedBy(u, g) ==
  \/ cgPc = "memberInsert" /\ cgUser = u /\ cgGroup = g
  \/ [group |-> g, user |-> u] \in cgCreated

\* u was given the invite code of group g: as its creator, or by a user who
\* had it
HoldsInviteCode(u, g) == CreatedBy(u, g) \/ <<u, g>> \in codeGiven

\* handleCopyInviteCode: a user who has the code of a listed group copies it
\* and passes it on to another user
ShareInviteCode(u, v, g) ==
  /\ g \in GroupRowIds
  /\ HoldsInviteCode(u, g)
  /\ v \in authUsers
  /\ <<v, g>> \notin codeGiven
  /\ codeGiven' = codeGiven \cup {<<v, g>>}
  /\ UNCHANGED <<dashVars, editorVars, viewCodeVars, signOutVars,
                 fetchGroupsVars>>
  /\ UNCHANGED <<tableVars, lastErr, createGroupVars, searchVars>>
  /\ UNCHANGED <<retryVars, healthVars>>

\* a user joins with the code of a group, having been given it
JoinWithGivenCode(u, g) ==
  /\ HoldsInviteCode(u, g.id)
  /\ JoinGroup(u, g.invite_code)

NextInvite ==
  \/ \E u \in Users, c \in Codes, r \in Responses : CreateGroupInsert(u, c, r)
  \/ \E r \in Responses : CreateGroupMemberInsert(r)
  \/ \E u \in Users, v \in Users, g \in GroupIds : ShareInviteCode(u, v, g)
  \/ \E u \in Users, g \in groups : JoinWithGivenCode(u, g)
  \/ \E u \in Users, g \in GroupIds : InsertGroupMember(u, g, u, FALSE)
  \/ \E u \in Users, g \in GroupIds : DeleteGroup(u, g)

SpecInvite == InitSignedUp /\ [][NextInvite]_vars

\* C15: a user has a membership row for a group only if they were given
\* the group's invite code, and a user who was never given the code of a
\* stored group does not get it from a select on groups
MembershipRequiresInviteCode ==
  \A u \in Users : \A g \in groups :
    /\ IsMember(g.id, u) => HoldsInviteCode(u, g.id)
    /\ ~HoldsInviteCode(u, g.id) =>
         g.invite_code \notin {r.invite_code : r \in SelectGroups(u)}

\* C16: isConnected always equals "the status most recently delivered to a
\* subscribe callback of a health check was SUBSCRIBED", whatever the order
\* in which the callbacks of the initial, periodic and retry-triggered
\* checks run, and the channel that reports another status is removed
ConnectedIffLastStatusSubscribed ==
  /\ [](isConnected = (lastStatus = "SUBSCRIBED"))
  /\ [][\A c \in channels : \A s \in Statuses \ {"SUBSCRIBED"} :
          SubscribeCallback(c, s) => c \notin channels']_vars

\* a connection was reported lost after three health checks had subscribed,
\* one of their channels still being subscribed
ConnectionLostAmongSeveralChecks ==
  /\ lastStatus = "TIMED_OUT"
  /\ ~isConnected
  /\ nextChannel >= 3
  /\ channels # {}

\* ---------------------------------------------- Profile editor and storage
\* 5 * 1024 * 1024
MaxFileSize == 5242880

FileSizes == {MaxFileSize, MaxFileSize + 1}

\* a MIME type as its text up to and including the slash, and the rest
FileTypes == {<<"image/", "png">>, <<"text/", "plain">>, <<>>}

\* file.type.startsWith('image/')
IsImageType(type) == Len(type) > 0 /\ type[1] = "image/"

\* values of Date.now()
Timestamps == {"t1", "t2"}

Buckets == {"avatars", "other"}

\* an object name as the sequence of its pieces: an id, "-", "/", a
\* timestamp, ".jpg"
\* `${userId}-${Date.now()}.jpg`
EditorFileName(userId, ts) == <<userId, "-", ts, ".jpg">>

\* the name of the same file inside a folder named after a user
FolderFileName(folder, ts) == <<folder, "/", ts, ".jpg">>

ObjectNames ==
  {EditorFileName(u, t) : u \in Users, t \in Timestamps}
    \cup {FolderFileName(u, t) : u \in Users, t \in Timestamps}

\* string_to_array(name, '/'): the pieces between the slashes
RECURSIVE SplitPath(_)
SplitPath(name) ==
  IF \A i \in 1 .. Len(name) : name[i] # "/"
    THEN <<name>>
    ELSE LET k == CHOOSE i \in 1 .. Len(name) :
                    /\ name[i] = "/"
                    /\ \A j \in 1 .. (i - 1) : name[j] # "/"
         IN  <<SubSeq(name, 1, k - 1)>>
               \o SplitPath(SubSeq(name, k + 1, Len(name)))

\* storage.foldername(name): every element of the path but the file name
foldername(name) ==
  LET parts == SplitPath(name) IN SubSeq(parts, 1, Len(parts) - 1)

AvatarInsertPolicy_anyName(uid, row) == row.bucket_id = "avatars"

\* policy "Users can upload their own avatars": WITH CHECK (bucket_id =
\* 'avatars' AND auth.uid()::text = (storage.foldername(name))[1]); the
\* first element of an empty array is NULL and the comparison is not true
AvatarInsertPolicy(uid, row) ==
  /\ row.bucket_id = "avatars"
  /\ Len(foldername(row.name)) >= 1
  /\ foldername(row.name)[1] = <<uid>>

\* storage upload of (bucket, name) by client uid with upsert: true;
\* storage.objects has no UPDATE policy, so an existing name is refused
UploadError(uid, row) ==
  IF ~AvatarInsertPolicy(uid, row)
       \/ (\E o \in objects : o.bucket_id = row.bucket_id /\ o.name = row.name)
    THEN "rls_violation"
    ELSE "ok"

\* supabase.storage.from(bucket).upload(name, blob) by any client
UploadObject(u, bucket, name) ==
  /\ u \in authUsers
  /\ LET row == [bucket_id |-> bucket, name |-> name, owner |-> u]
         err == UploadError(u, row)
     IN  /\ lastErr' = err
         /\ objects' = IF err = "ok" THEN objects \cup {row} ELSE objects
  /\ UNCHANGED <<alertText, edAvatar>>
  /\ UNCHANGED <<dashVars, inviteVars, viewCodeVars, signOutVars,
                 fetchGroupsVars>>
  /\ UNCHANGED <<tableVars, createGroupVars, searchVars>>
  /\ UNCHANGED <<retryVars, healthVars>>

\* Profile.handleFileUpload for a chosen file: the size and type checks
\* alert and return; otherwise the resized image is uploaded from inside
\* the toBlob callback, where a thrown error is outside the handler's
\* try/catch; on success the public URL becomes the avatar
handleFileUpload(u, size, type, ts, resp) ==
  /\ u \in authUsers
  /\ IF size > MaxFileSize
       THEN /\ alertText' = "File size must be less than 5MB"
            /\ UNCHANGED <<edAvatar, objects, lastErr>>
       ELSE IF ~IsImageType(type)
         THEN /\ alertText' = "Only image files are allowed"
              /\ UNCHANGED <<edAvatar, objects, lastErr>>
         ELSE LET row == [bucket_id |-> "avatars",
                          name |-> EditorFileName(u, ts), owner |-> u]
                  err == IF resp = "error" THEN "request_failed"
                                           ELSE UploadError(u, row)
              IN  /\ lastErr' = err
                  /\ objects' = IF err = "ok" THEN objects \cup {row}
                                              ELSE objects
                  /\ edAvatar' = IF err = "ok" THEN row.name ELSE edAvatar
                  /\ UNCHANGED alertText
  /\ UNCHANGED <<dashVars, inviteVars, viewCodeVars, signOutVars,
                 fetchGroupsVars>>
  /\ UNCHANGED <<tableVars, createGroupVars, searchVars>>
  /\ UNCHANGED <<retryVars, healthVars>>

\* Profile.fetchProfile: select ... .single(), which is an error also when
\* there is no row; the catch block logs
ProfileFetch(u, resp) ==
  /\ u \in authUsers
  /\ lastErr' = IF resp = "error" THEN "request_failed"
                ELSE IF ~HasProfile(u) THEN "no_rows" ELSE "ok"
  /\ UNCHANGED <<tableVars, createGroupVars, searchVars, clientVars>>
  /\ UNCHANGED <<retryVars, healthVars>>

\* Profile.handleSave with the answer of the backend: the catch block logs
ProfileSave(u, code, resp) ==
  IF resp = "error"
    THEN /\ u \in authUsers
         /\ lastErr' = "request_failed"
         /\ UNCHANGED <<tableVars, createGroupVars, searchVars, clientVars>>
         /\ UNCHANGED <<retryVars, healthVars>>
    ELSE handleSave(u, code)

\* no handler is waiting for an answer
HandlersIdle ==
  /\ cgPc = "idle"
  /\ pfPc \in {"idle", "done"}
  /\ fpPc \in {"idle", "done"}

\* the handlers of the dashboard, the profile editor and the person search
\* with their requests answered or failed, started one at a time
NextErrors ==
  \/ HandlersIdle /\ \E u \in Users, c \in Codes, r \in Responses :
       CreateGroupInsert(u, c, r)
  \/ \E r \in Responses : CreateGroupMemberInsert(r)
  \/ HandlersIdle /\ \E u \in Users : DashFetchProfile(u)
  \/ \E r \in Responses : DashProfileSelect(r)
  \/ \E b \in BOOLEAN : DashProfileGetUser(b)
  \/ \E c \in Codes, r \in Responses : DashProfileInsert(c, r)
  \/ DashProfileWait
  \/ HandlersIdle /\ \E u \in Users, r \in Responses : ProfileFetch(u, r)
  \/ HandlersIdle /\ \E u \in Users, c \in Codes, r \in Responses :
       ProfileSave(u, c, r)
  \/ HandlersIdle /\ \E u \in Users, size \in FileSizes, type \in FileTypes,
                        ts \in Timestamps, r \in Responses :
       handleFileUpload(u, size, type, ts, r)
  \/ HandlersIdle /\ \E c \in Codes : SearchSubmit(c)
  \/ \E r \in Responses : SearchProfileResponse(r)
  \/ \E r \in Responses : SearchMembersResponse(r)
  \/ \E r \in Responses : SearchGroupsResponse(r)

SpecErrors == InitSignedUp /\ [][NextErrors]_vars

\* C17: every error of a backend call is surfaced: a handler whose call
\* was answered with an error ends with a user-visible message set, for
\* handleCreateGroup's two inserts, the dashboard's profile fetch, the
\* profile editor's fetch, save and avatar upload, and the person search's
\* profile and membership queries
EveryBackendErrorIsShown ==
  [][
      /\ \A u \in Users, c \in Codes, r \in Responses :
           (CreateGroupInsert(u, c, r) /\ lastErr' # "ok")
             => dashError' # Null
      /\ \A r \in Responses :
           (CreateGroupMemberInsert(r) /\ lastErr' # "ok")
             => dashError' # Null
      /\ (DashProfileWait /\ pfPc' = "done") => dashError' # Null
      /\ \A u \in Users, r \in Responses :
           (ProfileFetch(u, r) /\ lastErr' # "ok") => alertText' # Null
      /\ \A u \in Users, c \in Codes, r \in Responses :
           (ProfileSave(u, c, r) /\ lastErr' # "ok") => alertText' # Null
      /\ \A u \in Users, size \in FileSizes, type \in FileTypes,
            ts \in Timestamps, r \in Responses :
           (handleFileUpload(u, size, type, ts, r) /\ lastErr' # "ok"
              /\ size <= MaxFileSize /\ IsImageType(type))
             => alertText' # Null
      /\ SearchProfileResponse("error") => fpError' # Null
      /\ SearchMembersResponse("error") => fpError' # Null
    ]_vars

\* ------------------------------------------- signup over existing profiles
\* a profile row written by the table owner: user_profiles.id has no
\* foreign key to auth.users, the row may precede the user
OwnerInsertProfile(row) ==
  /\ ProfileInsertError(row) = "ok"
  /\ user_profiles' = user_profiles \cup {row}
  /\ lastErr' = "ok"
  /\ UNCHANGED <<authUsers, groups, group_members, messages, meetings,
                 nextGroupId, nextMessageId, nextMeetingId, deletedGroups>>
  /\ UNCHANGED createGroupVars
  /\ UNCHANGED <<retryVars, healthVars, searchVars, clientVars>>

NextSignup ==
  \/ NextProfiles
  \/ \E row \in ProfileRows : OwnerInsertProfile(row)

SpecSignup == InitProfiles /\ [][NextSignup]_vars

\* C18: whatever error the trigger's insert of the profile row meets, the
\* insert into auth.users completes and the profiles are as before; if a
\* profile with the new id exists already, the trigger inserts nothing and
\* leaves that profile unchanged
SignupCompletesDespiteProfileError ==
  [][\A u \in Users, c \in Codes :
       SignUp(u, c) =>
         /\ authUsers' = authUsers \cup {u}
         /\ lastErr' # "ok" => user_profiles' = user_profiles
         /\ HasProfile(u) => user_profiles' = user_profiles]_vars

\* a user was signed up without a profile, the generated view code being
\* that of a profile stored for an id that has not signed up
SignedUpWhileProfileInsertFailed ==
  /\ lastErr = "user_profiles_view_code_key"
  /\ \E u \in authUsers : ~HasProfile(u)
  /\ \E p \in user_profiles : p.id \notin authUsers

\* ------------------------------- initial migration: view codes and signup
ViewCodeAttempts == 10

\* the codes random() produces in the attempts of one call
CodeSequences == [1 .. ViewCodeAttempts -> Codes]

\* a row of the initial user_profiles table: view_code is text UNIQUE
\* without a default, Null and '' mark a profile without a view code
LegacyProfileRows == [id : Users, view_code : Codes \cup {"", Null}]

EmptyViewCode(p) == p.view_code = Null \/ p.view_code = ""

\* generate_unique_view_code(target_id), attempts i, i + 1, ... with the
\* generated codes cs: the UPDATE of the target's row when it has no view
\* code; a unique_violation or an UPDATE of no row leads to the next
\* attempt; after the last attempt the exception is raised
RECURSIVE generate_unique_view_code(_, _, _)
generate_unique_view_code(target_id, cs, i) ==
  IF i >= ViewCodeAttempts
    THEN [raised |-> TRUE, result |-> Null, user_profiles |-> user_profiles]
    ELSE LET result == cs[i + 1]
             rows == {p \in user_profiles :
                        p.id = target_id /\ EmptyViewCode(p)}
         IN  IF rows = {}
               THEN generate_unique_view_code(target_id, cs, i + 1)
               ELSE IF \E p \in user_profiles \ rows : p.view_code = result
                 THEN generate_unique_view_code(target_id, cs, i + 1)
                 ELSE [raised |-> FALSE, result |-> result,
                       user_profiles |->
                         (user_profiles \ rows) \cup
                           {[p EXCEPT !.view_code = result] : p \in rows}]

\* a call of the function outside the trigger: the DO block of the
\* migration calls it for every profile without a view code
GenerateViewCode(target_id, cs) ==
  /\ LET r == generate_unique_view_code(target_id, cs, 0)
     IN  /\ gvResult' = IF r.raised THEN "raised" ELSE r.result
         /\ user_profiles' = r.user_profiles
         /\ lastErr' = IF r.raised THEN "raise_exception" ELSE "ok"
  /\ UNCHANGED <<authUsers, groups, group_members, messages, meetings,
                 nextGroupId, nextMessageId, nextMeetingId, deletedGroups>>
  /\ UNCHANGED <<createGroupVars, searchVars>>
  /\ UNCHANGED <<dashVars, inviteVars, editorVars, signOutVars,
                 fetchGroupsVars>>
  /\ UNCHANGED <<retryVars, healthVars>>

\* a row is inserted into auth.users while handle_new_user of the initial
\* migration is the trigger function: the view code is generated first,
\* then the profile is inserted ON CONFLICT (id) DO NOTHING; the function
\* has no exception handler, an error aborts the insert into auth.users
SignUpInitialMigration(u, cs) ==
  /\ u \notin authUsers
  /\ LET r == generate_unique_view_code(u, cs, 0)
         row == [id |-> u, view_code |-> r.result]
         taken == \E p \in r.user_profiles :
                    p.id # u /\ p.view_code = row.view_code
     IN  IF r.raised
           THEN /\ gvResult' = "raised"
                /\ lastErr' = "raise_exception"
                /\ UNCHANGED <<authUsers, user_profiles>>
           ELSE IF taken
             THEN /\ gvResult' = r.result
                  /\ lastErr' = "user_profiles_view_code_key"
                  /\ UNCHANGED <<authUsers, user_profiles>>
             ELSE /\ gvResult' = r.result
                  /\ lastErr' = "ok"
                  /\ authUsers' = authUsers \cup {u}
                  /\ user_profiles' =
                       IF \E p \in r.user_profiles : p.id = u
                         THEN r.user_profiles
                         ELSE r.user_profiles \cup {row}
  /\ UNCHANGED <<groups, group_members, messages, meetings,
                 nextGroupId, nextMessageId, nextMeetingId, deletedGroups>>
  /\ UNCHANGED <<createGroupVars, searchVars>>
  /\ UNCHANGED <<dashVars, inviteVars, editorVars, signOutVars,
                 fetchGroupsVars>>
  /\ UNCHANGED <<retryVars, healthVars>>

\* the profile of an existing user is cleared of its view code or removed by
\* the table owner, as the rows the migration finds may be
OwnerSetViewCode(u, vc) ==
  /\ u \in authUsers
  /\ vc \in {"", Null}
  /\ user_profiles' = {p \in user_profiles : p.id # u}
                        \cup {[id |-> u, view_code |-> vc]}
  /\ ~(vc = "" /\ \E p \in user_profiles : p.id # u /\ p.view_code = "")
  /\ lastErr' = "ok"
  /\ UNCHANGED gvResult
  /\ UNCHANGED <<authUsers, groups, group_members, messages, meetings,
                 nextGroupId, nextMessageId, nextMeetingId, deletedGroups>>
  /\ UNCHANGED <<createGroupVars, searchVars>>
  /\ UNCHANGED <<dashVars, inviteVars, editorVars, signOutVars,
                 fetchGroupsVars>>
  /\ UNCHANGED <<retryVars, healthVars>>

\* the database when the initial migration is applied: users who signed up
\* before it, each with or without a profile, the profiles with any view
\* code the UNIQUE constraint admits
InitialMigrationInit ==
  /\ authUsers \in SUBSET Users
  /\ user_profiles \in SUBSET LegacyProfileRows
  /\ \A p \in user_profiles : p.id \in authUsers
  /\ \A p, q \in user_profiles :
       (p.id = q.id \/ (p.view_code = q.view_code /\ p.view_code # Null))
         => p = q
  /\ groups = {}
  /\ group_members = {}
  /\ messages = {}
  /\ meetings = {}
  /\ nextGroupId = 1
  /\ nextMessageId = 1
  /\ nextMeetingId = 1
  /\ deletedGroups = {}
  /\ lastErr = "ok"
  /\ cgPc = "idle"
  /\ cgUser = Null
  /\ cgGroup = 0
  /\ cgCreated = {}

InitViewCode ==
  RetryIdle /\ HealthInit /\ InitialMigrationInit /\ SearchInit /\ ClientInit

NextViewCode ==
  \/ \E u \in Users, cs \in CodeSequences : GenerateViewCode(u, cs)
  \/ \E u \in Users, cs \in CodeSequences : SignUpInitialMigration(u, cs)
  \/ \E u \in Users, vc \in {"", Null} : OwnerSetViewCode(u, vc)

SpecViewCode == InitViewCode /\ [][NextViewCode]_vars

\* C19: generate_unique_view_code(target_id) returns a code only if it has
\* just stored that code on the profile target_id, which had no view code,
\* and no other profile has the code; it changes no profile that has a view
\* code; it raises its exception exactly when none of its attempts updated a
\* row; and a signup under handle_new_user of the initial migration ends
\* with a profile of the new user that stores the code generated for it
ViewCodeGeneratedAndStored ==
  [][
      /\ \A t \in Users, cs \in CodeSequences :
           GenerateViewCode(t, cs) =>
             /\ gvResult' \in Codes =>
                  /\ \E p \in user_profiles : p.id = t /\ EmptyViewCode(p)
                  /\ [id |-> t, view_code |-> gvResult'] \in user_profiles'
                  /\ \A p \in user_profiles' :
                       p.view_code = gvResult' => p.id = t
             /\ \A p \in user_profiles :
                  ~EmptyViewCode(p) => p \in user_profiles'
             /\ gvResult' = "raised" <=> user_profiles' = user_profiles
      /\ \A u \in Users, cs \in CodeSequences :
           SignUpInitialMigration(u, cs) =>
             /\ gvResult' \in Codes
             /\ u \in authUsers'
             /\ [id |-> u, view_code |-> gvResult'] \in user_profiles'
    ]_vars

\* ------------------------------------------------------- avatar uploads
NextAvatars ==
  \/ \E u \in Users, size \in FileSizes, type \in FileTypes,
        ts \in Timestamps, r \in Responses :
       handleFileUpload(u, size, type, ts, r)
  \/ \E u \in Users, b \in Buckets, n \in ObjectNames : UploadObject(u, b, n)
  \/ \E u \in Users, c \in Codes, r \in Responses : ProfileSave(u, c, r)
  \/ \E u \in Users, r \in Responses : ProfileFetch(u, r)

SpecAvatars == InitSignedUp /\ [][NextAvatars]_vars

\* C20: the object the profile editor uploads for user u, bucket 'avatars'
\* and name '<u>-<timestamp>.jpg', passes the policy "Users can upload
\* their own avatars" and is stored when the request reaches the backend;
\* an upload under a name whose first folder is another user's id is refused
OwnAvatarUploadAccepted ==
  [][
      /\ \A u \in Users, size \in FileSizes, type \in FileTypes,
            ts \in Timestamps :
           (handleFileUpload(u, size, type, ts, "ok")
              /\ size <= MaxFileSize /\ IsImageType(type)
              /\ \A o \in objects : o.name # EditorFileName(u, ts))
             => /\ lastErr' = "ok"
                /\ [bucket_id |-> "avatars", name |-> EditorFileName(u, ts),
                    owner |-> u] \in objects'
      /\ \A u \in Users : \A v \in Users \ {u}, b \in Buckets,
                           t \in Timestamps :
           UploadObject(u, b, FolderFileName(v, t))
             => lastErr' = "rls_violation" /\ objects' = objects
    ]_vars

\* ================================================== cleanup and signOut
NoError == "no error"

\* cleanup(): clearInterval(realtimeHealthCheck), then every channel of
\* supabase.getChannels() is unsubscribed and removed
cleanup ==
  /\ realtimeHealthCheck' = "cleared"
  /\ channels' = {}
  /\ UNCHANGED <<isConnected, nextChannel, timerChecks, lastStatus>>

\* signOut up to its await: cleanup(), then the storage key is removed
\* (supabase.auth.storageKey is always set by the client library)
SignOutStart ==
  /\ soPc \in {"idle", "done"}
  /\ location = DashboardPath
  /\ cleanup
  /\ localStorage' = localStorage \ {StorageKey}
  /\ soLog' = <<"cleanup", "removeItem storageKey">>
  /\ soResult' = Null
  /\ soPc' = "backend"
  /\ UNCHANGED location
  /\ UNCHANGED retryVars
  /\ UNCHANGED <<tableVars, lastErr, createGroupVars, searchVars>>
  /\ UNCHANGED <<dashVars, inviteVars, editorVars, viewCodeVars,
                 fetchGroupsVars>>

SignOutBackend_redirectAlways(resp, e) ==
  /\ soPc = "backend"
  /\ IF resp = "ok"
       THEN /\ soLog' = soLog \o <<"auth.signOut",
                                   "removeItem tokens",
                                   "redirect">>
            /\ localStorage' = localStorage \ TokenKeys
            /\ location' = "/"
            /\ soResult' = NoError
       ELSE /\ soLog' = Append(soLog, e)
            /\ location' = "/"
            /\ soResult' = e
            /\ UNCHANGED localStorage
  /\ soPc' = "done"
  /\ UNCHANGED realtimeHealthCheck
  /\ UNCHANGED <<retryVars, healthVars>>
  /\ UNCHANGED <<tableVars, lastErr, createGroupVars, searchVars>>
  /\ UNCHANGED <<dashVars, inviteVars, editorVars, viewCodeVars,
                 fetchGroupsVars>>

\* supabase.auth.signOut() settles: without an error the token keys are
\* removed, the redirect is issued and { error: null } is returned; an
\* error e (reported or thrown) reaches the catch block, which returns it;
\* soLog keeps the steps taken, an error as the step of the failed call
SignOutBackend(resp, e) ==
  /\ soPc = "backend"
  /\ IF resp = "ok"
       THEN /\ soLog' = soLog \o <<"auth.signOut",
                                   "removeItem tokens",
                                   "redirect">>
            /\ localStorage' = localStorage \ TokenKeys
            /\ location' = "/"
            /\ soResult' = NoError
       ELSE /\ soLog' = Append(soLog, e)
            /\ soResult' = e
            /\ UNCHANGED <<localStorage, location>>
  /\ soPc' = "done"
  /\ UNCHANGED realtimeHealthCheck
  /\ UNCHANGED <<retryVars, healthVars>>
  /\ UNCHANGED <<tableVars, lastErr, createGroupVars, searchVars>>
  /\ UNCHANGED <<dashVars, inviteVars, editorVars, viewCodeVars,
                 fetchGroupsVars>>

InitSignOut == RetryIdle /\ HealthInit /\ DbInit /\ SearchInit /\ ClientInit

\* signOut next to a retryOperation, the timer and the subscribe callbacks
NextSignOut ==
  \/ \E v \in Values : OperationResolves(v)
  \/ \E e \in Errors : OperationRejects(e)
  \/ RetryWait
  \/ RetryHealthCheck
  \/ TimerHealthCheck
  \/ \E c \in channels, s \in Statuses : SubscribeCallback(c, s)
  \/ SignOutStart
  \/ \E resp \in Responses, e \in Errors : SignOutBackend(resp, e)

SpecSignOut == InitSignOut /\ [][NextSignOut]_vars

SignOutSuccessLog ==
  <<"cleanup", "removeItem storageKey", "auth.signOut", "removeItem tokens",
    "redirect">>

\* C21: signOut never throws: it ends by returning a result. It returns
\* { error: null } only after cleanup(), the removal of the storage key, a
\* successful backend sign-out, the removal of the token keys and the
\* redirect to '/', in this order; when the backend sign-out reports an
\* error, that error is returned and no redirect is issued.
SignOutReturnsInOrder ==
  /\ soPc = "done" => soResult \in Errors \cup {NoError}
  /\ soResult = NoError =>
       /\ soLog = SignOutSuccessLog
       /\ realtimeHealthCheck = "cleared"
       /\ localStorage = {}
       /\ location = "/"
  /\ \A e \in Errors :
       (soPc = "done" /\ soLog[Len(soLog)] = e) =>
         /\ soResult = e
         /\ location = DashboardPath

SignedOutAndRedirected ==
  /\ soPc = "done"
  /\ soResult = NoError
  /\ location = "/"
  /\ rPc = "loop"
  /\ rI > 0

\* C22: after cleanup() has run the periodic health check never starts
\* again, and the client's channel set is empty and stays empty: neither
\* the timer, nor a check in flight, nor a retryOperation still running
\* creates or keeps a channel afterwards.
NoChannelAfterCleanup ==
  /\ [](realtimeHealthCheck = "cleared" => channels = {})
  /\ [][realtimeHealthCheck = "cleared" => timerChecks' = timerChecks]_vars

\* every request the handler awaits is answered (with a result or an error)
\* and every timer it sets fires
SpecDashProfileFair ==
  /\ SpecDashProfile
  /\ WF_vars(\E r \in Responses : DashProfileSelect(r))
  /\ WF_vars(\E b \in BOOLEAN : DashProfileGetUser(b))
  /\ WF_vars(\E c \in Codes, r \in Responses : DashProfileInsert(c, r))
  /\ WF_vars(DashProfileWait)

PfCount(log, ev) ==
  LET Is(x) == x.ev = ev
  IN  Len(SelectSeq(log, Is))

PfWaitsExpected == <<1000, 2000, 4000>>

FetchProfileBounded ==
  /\ PfCount(pfLog, "select") <= 3
  /\ PfCount(pfLog, "insert") <= 1
  /\ \A i \in 1 .. Len(pfLog) :
       /\ pfLog[i].ev = "insert" => PfCount(SubSeq(pfLog, 1, i), "wait") = 0
       /\ pfLog[i].ev = "wait" =>
            LET k == PfCount(SubSeq(pfLog, 1, i), "wait")
            IN  /\ k <= 3
                /\ PfCount(SubSeq(pfLog, 1, i), "select") = k
                /\ pfLog[i].arg = PfWaitsExpected[k]

FetchProfileOutcome ==
  LET loaded == dashProfile # {} /\ dashError = Null
                  /\ pfLog[Len(pfLog)].ev \in {"select", "insert"}
      failed == dashError = ProfileLoadFailed /\ dashProfile = pfStart
                  /\ pfLog[Len(pfLog)].ev = "wait"
  IN  pfPc = "done" => (loaded \/ failed) /\ ~(loaded /\ failed)

\* C23: Dashboard fetchProfile always terminates; it issues at most 3
\* profile selects and at most 1 insert of the default profile (in the
\* first iteration only), waits 1000 * 2^k ms after the k-th unsuccessful
\* iteration (k = 0, 1, 2), and ends in exactly one of two outcomes: the
\* profile state set and the error null, or the error 'Failed to load
\* profile. Please refresh the page.' and the profile state unchanged.
FetchProfileTerminates ==
  /\ [](FetchProfileBounded /\ FetchProfileOutcome)
  /\ (pfPc \in {"select", "getUser", "insert", "wait"}) ~> (pfPc = "done")

FetchProfileGaveUpAfterThreeSelects ==
  /\ pfPc = "done"
  /\ dashError = ProfileLoadFailed
  /\ PfCount(pfLog, "select") = 3
  /\ PfCount(pfLog, "insert") = 1
  /\ PfCount(pfLog, "wait") = 3

\* ================================================ Dashboard.fetchGroups
GroupsLoadFailed == "Failed to load groups"

\* a call of retryOperation(operation) with the default arguments
RetryBegin ==
  /\ rPc' = "loop"
  /\ rI' = 0
  /\ rMax' = DefaultMaxRetries
  /\ rDelay' = DefaultDelay
  /\ rResult' = NoResult
  /\ opLog' = <<>>
  /\ trace' = <<>>

\* fetchGroups up to its first await: setLoading(true), then the
\* group_members query of user u is handed to retryOperation
FetchGroupsBegin(u) ==
  /\ fgPc' = "members"
  /\ fgUser' = u
  /\ fgCreatedIds' = {}
  /\ fgJoinedIds' = {}
  /\ loading' = TRUE
  /\ RetryBegin
  /\ UNCHANGED <<createdGroups, joinedGroups>>

\* useEffect on userId: fetchGroups(); fetchProfile(); both run up to their
\* first await
DashMount(u) ==
  /\ fgPc = "idle"
  /\ pfPc = "idle"
  /\ u \in authUsers
  /\ FetchGroupsBegin(u)
  /\ pfPc' = "select"
  /\ pfUser' = u
  /\ pfRetry' = 0
  /\ pfSelect' = Null
  /\ pfLog' = <<>>
  /\ pfStart' = dashProfile
  /\ UNCHANGED <<dashProfile, dashError>>
  /\ UNCHANGED <<tableVars, lastErr, createGroupVars, searchVars>>
  /\ UNCHANGED healthVars
  /\ UNCHANGED <<inviteVars, editorVars, viewCodeVars, signOutVars>>

\* fetchGroups called again by a handler of the mounted dashboard
\* (handleCreateGroup ends with await fetchGroups())
FetchGroupsRefresh ==
  /\ fgPc = "done"
  /\ FetchGroupsBegin(fgUser)
  /\ UNCHANGED <<tableVars, lastErr, createGroupVars, searchVars>>
  /\ UNCHANGED healthVars
  /\ UNCHANGED <<dashVars, inviteVars, editorVars, viewCodeVars, signOutVars>>

\* the part of fetchGroups after createdGroups is set: the groups query for
\* the joined ids, or setJoinedGroups([]) and the finally block
FetchGroupsJoinedPart(joinedIds) ==
  IF joinedIds # {}
    THEN /\ fgPc' = "joined"
         /\ RetryBegin
         /\ UNCHANGED <<joinedGroups, loading>>
    ELSE /\ joinedGroups' = {}
         /\ loading' = FALSE
         /\ fgPc' = "done"
         /\ UNCHANGED retryVars

\* retryOperation has returned the result of the query to fetchGroups: a
\* result with an error is thrown into the catch block, which sets the
\* error text; the finally block sets loading to false
FetchGroupsResult ==
  /\ fgPc \in {"members", "created", "joined"}
  /\ rPc = "resolved"
  /\ IF rResult.val = "error"
       THEN /\ dashError' = GroupsLoadFailed
            /\ loading' = FALSE
            /\ fgPc' = "done"
            /\ UNCHANGED <<fgCreatedIds, fgJoinedIds, createdGroups,
                           joinedGroups>>
            /\ UNCHANGED retryVars
       ELSE /\ UNCHANGED dashError
            /\ CASE fgPc = "members" ->
                      LET memberGroups ==
                            {m \in group_members : m.user_id = fgUser}
                          createdGroupIds ==
                            {m.group_id : m \in {x \in memberGroups :
                                                   x.is_creator}}
                          joinedGroupIds ==
                            {m.group_id : m \in {x \in memberGroups :
                                                   ~x.is_creator}}
                      IN  /\ fgCreatedIds' = createdGroupIds
                          /\ fgJoinedIds' = joinedGroupIds
                          /\ IF createdGroupIds # {}
                               THEN /\ fgPc' = "created"
                                    /\ RetryBegin
                                    /\ UNCHANGED <<createdGroups,
                                                   joinedGroups, loading>>
                               ELSE /\ createdGroups' = {}
                                    /\ FetchGroupsJoinedPart(joinedGroupIds)
                 [] fgPc = "created" ->
                      /\ createdGroups' =
                           {g \in groups : g.id \in fgCreatedIds}
                      /\ FetchGroupsJoinedPart(fgJoinedIds)
                      /\ UNCHANGED <<fgCreatedIds, fgJoinedIds>>
                 [] fgPc = "joined" ->
                      /\ joinedGroups' =
                           {g \in groups : g.id \in fgJoinedIds}
                      /\ loading' = FALSE
                      /\ fgPc' = "done"
                      /\ UNCHANGED <<fgCreatedIds, fgJoinedIds, createdGroups>>
                      /\ UNCHANGED retryVars
  /\ UNCHANGED fgUser
  /\ UNCHANGED <<pfPc, pfUser, pfRetry, pfSelect, dashProfile, pfLog, pfStart>>
  /\ UNCHANGED <<tableVars, lastErr, createGroupVars, searchVars>>
  /\ UNCHANGED healthVars
  /\ UNCHANGED <<inviteVars, editorVars, viewCodeVars, signOutVars>>

\* the mounted dashboard: fetchGroups, whose queries the table API answers
\* by resolving with data or with an error, next to fetchProfile, while
\* one user creates groups and the other joins them
NextDashboard ==
  \/ \E u \in Users : DashMount(u)
  \/ FetchGroupsRefresh
  \/ fgPc \in {"members", "created", "joined"}
       /\ \E r \in Responses : OperationResolves(r)
  \/ FetchGroupsResult
  \/ \E r \in Responses : DashProfileSelect(r)
  \/ \E b \in BOOLEAN : DashProfileGetUser(b)
  \/ \E c \in Codes, r \in Responses : DashProfileInsert(c, r)
  \/ DashProfileWait
  \/ \E c \in Codes : CreateGroupInsert("u1", c, "ok")
  \/ CreateGroupMemberInsert("ok")
  \/ \E c \in Codes : JoinGroup("u2", c)

SpecDashboard == InitSignedUp /\ [][NextDashboard]_vars

FetchGroupsFailed ==
  /\ fgPc = "done"
  /\ rPc = "resolved"
  /\ rResult.val = "error"

\* C24: a group_members or groups query of fetchGroups that fails with a
\* backend error (the error field of a resolved result) is attempted again
\* up to the retry count before 'Failed to load groups' is shown; in every
\* case loading is false when fetchGroups ends.
FailedQueryIsRetried ==
  /\ FetchGroupsFailed => Len(opLog) = DefaultMaxRetries
  /\ fgPc = "done" => ~loading

\* C26: fetchGroups and fetchProfile are started together; if fetchGroups
\* fails, the error 'Failed to load groups' is set once both have finished,
\* in every interleaving of their completions.
GroupsErrorSurvivesProfileLoad ==
  (FetchGroupsFailed /\ pfPc = "done") => dashError = GroupsLoadFailed

\* C25: for every value of maxRetries, 0 and negative values included,
\* retryOperation invokes the operation at least once and settles either
\* with a value the operation resolved with or with an error the operation
\* rejected with; it never resolves with a value the operation did not
\* produce.
RetrySettlesWithOperationOutcome ==
  /\ rPc \in {"resolved", "rejected"} => Len(opLog) >= 1
  /\ rPc = "resolved" =>
       \E k \in 1 .. Len(opLog) :
         /\ opLog[k].kind = "resolve"
         /\ rResult = [kind |-> "value", val |-> opLog[k].val]
  /\ rPc = "rejected" =>
       \E k \in 1 .. Len(opLog) :
         /\ opLog[k].kind = "reject"
         /\ rResult = [kind |-> "error", val |-> opLog[k].val]

\* C27: in every reachable database state each group has at most one
\* group_members row with is_creator = true, and that row belongs to the
\* user who created the group; a user who joins an existing group cannot
\* obtain a row with is_creator = true.
CreatorFlagOnlyForCreator ==
  \A g \in GroupRowIds :
    LET creatorRows == {m \in group_members : m.group_id = g /\ m.is_creator}
    IN  /\ Cardinality(creatorRows) <= 1
        /\ \A m \in creatorRows : CreatedBy(m.user_id, g)

\* ---------------------------------------------------------- member limit
\* the maxMembers argument of handleCreateGroup: small limits, which the
\* users of the model can reach
MaxMembersValues == {1, 2}

\* groups created with a member limit, then membership rows inserted by
\* authenticated users for themselves (policy "Authenticated users can join
\* groups"), groups deleted by their creators
NextMemberCap ==
  \/ \E u \in Users, c \in Codes, n \in MaxMembersValues :
       CreateGroupInsertWith(u, c, n, "ok")
  \/ \E r \in Responses : CreateGroupMemberInsert(r)
  \/ \E u \in Users, g \in GroupIds, cr \in BOOLEAN :
       InsertGroupMember(u, g, u, cr)
  \/ \E u \in Users, g \in GroupIds : DeleteGroup(u, g)

SpecMemberCap == InitSignedUp /\ [][NextMemberCap]_vars

\* C28: in every reachable database state the number of group_members rows
\* of a group never exceeds that group's max_members.
MembersWithinMaxMembers ==
  \A g \in groups :
    Cardinality({m \in group_members : m.group_id = g.id}) <= g.max_members
====
